---- MODULE Spec2Model ----
(***************************************************************************)
(* State-machine model of the SoroSusu rotating-savings contract           *)
(* (src/src/lib.rs).  One action per contract entry point.  A call that    *)
(* panics aborts atomically (Soroban host semantics): it leaves the stored *)
(* state as it was and is recorded only in `last`.                         *)
(*                                                                         *)
(* Representation choices:                                                 *)
(*  - u64 bitmaps are natural numbers, manipulated with the bit operators  *)
(*    below (bit i has weight 2^i), as the code does with `1 << index`.    *)
(*  - The instance store is one variable per DataKey variant.  Member      *)
(*    records are keyed by DataKey::Member(Address): the key carries no    *)
(*    circle id, exactly as in the source.                                 *)
(*  - All circles use one funding token and one NFT registry; `token`,     *)
(*    `nft_contract`, `id` and `is_active` (never read) are not stored.    *)
(***************************************************************************)
EXTENDS Integers, Sequences, FiniteSets, TLC

\* ------------------------------------------------------------------ bounds
MaxCircles == 2
MaxUsers == 3
MaxTicks == 2
MaxDeposits == 3
MaxYieldOps == 1
MaxRecoveries == 1

\* ------------------------------------------------------- program constants
YIELD_LIQUIDITY_BUFFER_SECS == 3600
DURATION_CHANGE_NOTICE_SECS == 259200
PAYOUT_DELAY_SECS == 86400
DEFAULT_LATE_FEE_BPS == 100
MAX_MEMBERS_CAP == 64
BPS_DENOMINATOR == 10000
RECOVERY_THRESHOLD_PCT == 70

\* ------------------------------------------------------------- identities
Admin == "admin"
Creator == "creator"
NoAddr == "none"
UserSeq == <<"u1", "u2", "u3", "u4", "u5", "u6", "u7">>
Users == {UserSeq[i] : i \in DOMAIN UserSeq}
Addrs == Users \cup {Creator, Admin}

\* MemberStatus, plus the absence of a record under DataKey::Member(addr)
Active == "Active"
AwaitingReplacement == "AwaitingReplacement"
Ejected == "Ejected"
Absent == "Absent"

NoMember ==
  [ index |-> 0, contribution_count |-> 0, last_contribution_time |-> 0,
    tier_multiplier |-> 0, status |-> Absent, total_contributed |-> 0 ]

VARIABLES
  now,            \* env.ledger().timestamp()
  ticks,          \* number of clock advances so far (bounds the run)
  lendingPool,    \* DataKey::LendingPool is set
  circleCount,    \* DataKey::CircleCount
  circles,        \* DataKey::Circle(id): function on 1..circleCount
  members,        \* DataKey::Member(addr): NoMember where no record is stored
  home,           \* history: the circle whose call created the record of addr
  pendingExit,    \* DataKey::PendingExit(id, addr): set of present keys
  groupReserve,   \* DataKey::GroupReserve
  scheduled,      \* DataKey::ScheduledPayoutTime(id): set of <<id, time>>
  finalizedPot,   \* history: <<id, sum of the contributions recorded for the round
                  \* of circle id finalized last>>
  roundContrib,   \* DataKey::CurrentRoundContribution(id, idx): <<id, idx, amount>>
  referrals,      \* set of <<referrer, referred, circle>> recorded at join
  contractBal,    \* funding-token balance held by the contract
  poolBal,        \* funding-token balance supplied to the lending pool
  nft,            \* membership credentials: set of <<circle, index, owner>>
  nDeposits,      \* number of successful deposits so far (bounds the run)
  nYield,         \* number of successful yield supplies so far (bounds the run)
  nRecover,       \* number of executed recoveries so far (bounds the run)
  audit,          \* whether rejected calls are logged in `last` (fixed by Init)
  last            \* outcome of the last logged call

store == <<lendingPool, circleCount, circles, members, home, pendingExit,
           groupReserve, scheduled, finalizedPot, roundContrib, referrals,
           contractBal, poolBal, nft>>
counters == <<ticks, nDeposits, nYield, nRecover, audit>>
vars == <<now, store, counters, last>>

\* --------------------------------------------------------- u64 bitmap ops
\* 1 << i
Bit(i) == 2 ^ i

\* (b & (1 << i)) != 0
HasBit(b, i) == (b \div Bit(i)) % 2 = 1

\* b | (1 << i)
SetBit(b, i) == IF HasBit(b, i) THEN b ELSE b + Bit(i)

\* b.count_ones()
RECURSIVE CountOnes(_)
CountOnes(b) == IF b = 0 THEN 0 ELSE (b % 2) + CountOnes(b \div 2)

\* (1u64 << n) - 1
FullBitmap(n) == Bit(n) - 1

\* ------------------------------------------------------------ call record
NoEvent == [missed_payments |-> 0, active_members |-> 0, trust_score |-> 0]

\* The log entry of a call: its caller, circle and numeric argument or the
\* value it moved (amt), the address it names or pays (to), a second address
\* argument (other), and the event it published.
Ok(op, user, cid, amt, to, ev) ==
  [op |-> op, ok |-> TRUE, err |-> "", user |-> user, cid |-> cid, amt |-> amt,
   to |-> to, other |-> NoAddr, ev |-> ev]

Failed(op, err, user, cid, amt, to, other) ==
  [op |-> op, ok |-> FALSE, err |-> err, user |-> user, cid |-> cid, amt |-> amt,
   to |-> to, other |-> other, ev |-> NoEvent]

\* A panic: every storage write of the call is rolled back, so a rejected call
\* is a step only where rejected calls are logged.
Abort(op, err, user, cid, amt, to, other) ==
  /\ audit
  /\ last' = Failed(op, err, user, cid, amt, to, other)
  /\ UNCHANGED <<store, now, counters>>

HasCircle(cid) == cid \in DOMAIN circles
HasMember(a) == members[a].status # Absent

\* ------------------------------------------------------------------ init
NoCall == Failed("none", "", NoAddr, 0, 0, NoAddr, NoAddr)

\* The state after init(admin): the counter is 0 and nothing else is stored.
InitStore ==
  /\ now = 0
  /\ lendingPool = FALSE
  /\ circleCount = 0
  /\ circles = << >>
  /\ members = [a \in Addrs |-> NoMember]
  /\ home = [a \in Addrs |-> 0]
  /\ pendingExit = {}
  /\ groupReserve = 0
  /\ scheduled = {}
  /\ finalizedPot = {}
  /\ roundContrib = {}
  /\ referrals = {}
  /\ contractBal = 0
  /\ poolBal = 0
  /\ nft = {}
  /\ ticks = 0
  /\ nDeposits = 0
  /\ nYield = 0
  /\ nRecover = 0
  /\ last = NoCall

Init == InitStore /\ audit = FALSE

\* The same state, with rejected calls logged.
InitAudit == InitStore /\ audit = TRUE

\* The ledger clock advances between calls.
Tick(d) ==
  /\ ticks < MaxTicks
  /\ now' = now + d
  /\ ticks' = ticks + 1
  /\ last' = Ok("tick", NoAddr, 0, d, NoAddr, NoEvent)
  /\ UNCHANGED <<store, nDeposits, nYield, nRecover, audit>>

\* set_lending_pool(admin, pool)
SetLendingPool(caller) ==
  IF caller # Admin THEN Abort("set_lending_pool", "auth",
      caller, 0, 0, NoAddr, NoAddr)
  ELSE /\ lendingPool' = TRUE
       /\ last' = Ok("set_lending_pool", caller, 0, 0, NoAddr, NoEvent)
       /\ UNCHANGED <<now, counters, circleCount, circles, members, home,
                      pendingExit, groupReserve, scheduled, finalizedPot, roundContrib,
                      referrals, contractBal, poolBal, nft>>

NewCircle(creator, amount, max_members, cycle_duration, insurance_fee_bps) ==
  [ creator |-> creator,
    contribution_amount |-> amount,
    max_members |-> max_members,
    member_count |-> 0,
    current_recipient_index |-> 0,
    deadline_timestamp |-> now + cycle_duration,
    cycle_duration |-> cycle_duration,
    pending_cycle_duration |-> 0,
    duration_change_effective_at |-> 0,
    contribution_bitmap |-> 0,
    payout_bitmap |-> 0,
    insurance_balance |-> 0,
    insurance_fee_bps |-> insurance_fee_bps,
    is_insurance_used |-> FALSE,
    late_fee_bps |-> DEFAULT_LATE_FEE_BPS,
    proposed_late_fee_bps |-> 0,
    proposal_votes_bitmap |-> 0,
    is_round_finalized |-> FALSE,
    current_pot_recipient |-> creator,
    member_addresses |-> << >>,
    yield_deposited |-> 0,
    recovery_old_address |-> NoAddr,
    recovery_new_address |-> NoAddr,
    recovery_votes_bitmap |-> 0 ]

\* Faulty variant of ExceedsCap: a capacity of 64 is rejected too.
ExceedsCapOffByOne(max_members) == max_members >= MAX_MEMBERS_CAP

\* max_members > 64
ExceedsCap(max_members) == max_members > MAX_MEMBERS_CAP

\* create_circle(creator, amount, max_members, token, cycle_duration,
\*               insurance_fee_bps, nft_contract) -> id
CreateCircle(creator, amount, max_members, cycle_duration, insurance_fee_bps) ==
  IF ExceedsCap(max_members) THEN Abort("create_circle", "validation",
      creator, 0, max_members, NoAddr, NoAddr)
  ELSE IF insurance_fee_bps > BPS_DENOMINATOR THEN Abort("create_circle", "validation",
      creator, 0, max_members, NoAddr, NoAddr)
  ELSE /\ circleCount < MaxCircles
       /\ circleCount' = circleCount + 1
       /\ circles' = Append(circles,
             NewCircle(creator, amount, max_members, cycle_duration, insurance_fee_bps))
       /\ last' = Ok("create_circle", creator, circleCount + 1, max_members,
                     NoAddr, NoEvent)
       /\ UNCHANGED <<now, counters, lendingPool, members, home, pendingExit,
                      groupReserve, scheduled, finalizedPot, roundContrib, referrals,
                      contractBal, poolBal, nft>>

\* The referrer argument of join (absent from join_circle's signature in the
\* source): when supplied it must hold a member record and differ from the joiner.
ReferrerOk(user, referrer) ==
  referrer = NoAddr \/ (referrer # user /\ HasMember(referrer))

\* The referrals recorded once `user` has joined `cid` naming `referrer`.
RecordReferral(user, cid, referrer) ==
  IF referrer = NoAddr THEN referrals ELSE referrals \cup {<<referrer, user, cid>>}

\* Faulty variant of NewMember: the slot after the next free one is assigned.
NewMemberNextIndex(index, tier_multiplier) ==
  [ index |-> index + 1, contribution_count |-> 0, last_contribution_time |-> 0,
    tier_multiplier |-> tier_multiplier, status |-> Active, total_contributed |-> 0 ]

\* The member record join_circle stores.
NewMember(index, tier_multiplier) ==
  [ index |-> index, contribution_count |-> 0, last_contribution_time |-> 0,
    tier_multiplier |-> tier_multiplier, status |-> Active, total_contributed |-> 0 ]

\* Faulty variant of CircleFull: admits one member past the capacity.
CircleFullOffByOne(c) == c.member_count > c.max_members

\* circle.member_count >= circle.max_members
CircleFull(c) == c.member_count >= c.max_members

\* join_circle(user, circle_id, tier_multiplier)
JoinCircle(user, cid, tier_multiplier, referrer) ==
  IF ~HasCircle(cid) THEN Abort("join_circle", "not-found",
      user, cid, tier_multiplier, referrer, NoAddr)
  ELSE IF CircleFull(circles[cid])
    THEN Abort("join_circle", "full",
      user, cid, tier_multiplier, referrer, NoAddr)
  ELSE IF HasMember(user) THEN Abort("join_circle", "already-member",
      user, cid, tier_multiplier, referrer, NoAddr)
  ELSE IF tier_multiplier = 0 THEN Abort("join_circle", "validation",
      user, cid, tier_multiplier, referrer, NoAddr)
  ELSE IF ~ReferrerOk(user, referrer) THEN Abort("join_circle", "referrer",
      user, cid, tier_multiplier, referrer, NoAddr)
  ELSE LET c == circles[cid]
           idx == c.member_count
       IN /\ members' = [members EXCEPT ![user] = NewMember(idx, tier_multiplier)]
          /\ home' = [home EXCEPT ![user] = cid]
          /\ circles' = [circles EXCEPT ![cid] =
                [c EXCEPT !.member_addresses = Append(c.member_addresses, user),
                          !.member_count = c.member_count + 1]]
          /\ referrals' = RecordReferral(user, cid, referrer)
          /\ nft' = nft \cup {<<cid, idx, user>>}
          /\ last' = Ok("join_circle", user, cid, idx, NoAddr, NoEvent)
          /\ UNCHANGED <<now, counters, lendingPool, circleCount, pendingExit,
                         groupReserve, scheduled, finalizedPot, roundContrib, contractBal, poolBal>>

\* ------------------------------------------------------------- deposit
\* circle.contribution_amount * member.tier_multiplier
Owed(c, m) == c.contribution_amount * m.tier_multiplier

\* (member_contribution_amount * circle.late_fee_bps) / 10000
LateFee(owed, late_fee_bps) == (owed * late_fee_bps) \div BPS_DENOMINATOR

\* Faulty variant of InsuranceFee: the quotient is rounded up.
InsuranceFeeRoundedUp(owed, insurance_fee_bps) ==
  (owed * insurance_fee_bps + BPS_DENOMINATOR - 1) \div BPS_DENOMINATOR

\* (member_contribution_amount * circle.insurance_fee_bps) / 10000
InsuranceFee(owed, insurance_fee_bps) == (owed * insurance_fee_bps) \div BPS_DENOMINATOR

\* Faulty variant of IsLate: a deposit at the deadline itself counts as late.
IsLateAtDeadline(c) == now >= c.deadline_timestamp

\* current_time > circle.deadline_timestamp
IsLate(c) == now > c.deadline_timestamp

\* The reserve balance held for circle cid: DataKey::GroupReserve carries no
\* circle id, so every circle reads the same entry.
ReserveOf(cid) == groupReserve

\* The penalty a deposit adds to the group reserve.
Penalty(c, m) == IF IsLate(c) THEN LateFee(Owed(c, m), c.late_fee_bps) ELSE 0

\* Faulty variant of NeedsRecall: no recall exactly one buffer before the
\* deadline.
NeedsRecallStrict(c) ==
  c.yield_deposited > 0 /\ now + YIELD_LIQUIDITY_BUFFER_SECS > c.deadline_timestamp

\* circle.yield_deposited > 0 && now + buffer >= deadline
NeedsRecall(c) ==
  c.yield_deposited > 0 /\ now + YIELD_LIQUIDITY_BUFFER_SECS >= c.deadline_timestamp

\* The GROUP_HEALTH event computed from the circle deposit is about to store.
HealthEvent(c) ==
  LET active_members == c.member_count
      ones == CountOnes(c.contribution_bitmap)
      contributed == IF ones < active_members THEN ones ELSE active_members
  IN [ missed_payments |-> active_members - contributed,
       active_members |-> active_members,
       trust_score |-> IF active_members = 0 THEN 0
                       ELSE (contributed * 100) \div active_members ]

\* The store entry written under CurrentRoundContribution(cid, idx).
SetContrib(rc, cid, idx, amount) ==
  {t \in rc : ~(t[1] = cid /\ t[2] = idx)} \cup {<<cid, idx, amount>>}

\* Faulty variant of DepositMemberCheck: only Ejected members are turned away.
DepositMemberCheckLax(c, m) == m.status # Ejected

\* The guard of deposit on the member record.
DepositMemberCheck(c, m) == m.status = Active

\* Faulty variant of TransferPanic: the reserve write made before the transfer
\* survives the failed call.
TransferPanicKeepsReserve(user, cid, penalty) ==
  /\ audit
  /\ last' = Failed("deposit", "funds", user, cid, 0, NoAddr, NoAddr)
  /\ groupReserve' = groupReserve + penalty
  /\ UNCHANGED <<now, counters, lendingPool, circleCount, circles, members, home,
                 pendingExit, scheduled, finalizedPot, roundContrib, referrals,
                 contractBal, poolBal, nft>>

\* client.transfer(user, contract, total_amount) panics: the host discards the
\* writes the call has made so far, the recalled yield and the reserve balance
\* (increased by `penalty`) among them.
TransferPanic(user, cid, penalty) ==
  Abort("deposit", "funds", user, cid, 0, NoAddr, NoAddr)

\* deposit(user, circle_id); `funded` is whether the token contract accepts the
\* transfer of owed + insurance fee from the user.
Deposit(user, cid, funded) ==
  IF ~HasCircle(cid) THEN Abort("deposit", "not-found",
      user, cid, 0, NoAddr, NoAddr)
  ELSE LET c0 == circles[cid]
           recall == NeedsRecall(c0)
           c == IF recall THEN [c0 EXCEPT !.yield_deposited = 0] ELSE c0
           m == members[user]
           owed == Owed(c, m)
           penalty == Penalty(c, m)
           fee == InsuranceFee(owed, c.insurance_fee_bps)
           total == owed + fee
           c2 == [c EXCEPT !.insurance_balance = c.insurance_balance + fee,
                           !.deadline_timestamp = now + c.cycle_duration,
                           !.contribution_bitmap = SetBit(c.contribution_bitmap, m.index)]
       IN IF recall /\ ~lendingPool THEN Abort("deposit", "no-pool",
      user, cid, 0, NoAddr, NoAddr)
          ELSE IF recall /\ poolBal < c0.yield_deposited THEN Abort("deposit", "funds",
      user, cid, 0, NoAddr, NoAddr)
          ELSE IF ~HasMember(user) THEN Abort("deposit", "not-found",
      user, cid, 0, NoAddr, NoAddr)
          ELSE IF ~DepositMemberCheck(c, m) THEN Abort("deposit", "state",
      user, cid, 0, NoAddr, NoAddr)
          ELSE IF ~funded THEN TransferPanic(user, cid, penalty)
          ELSE /\ nDeposits < MaxDeposits
               /\ nDeposits' = nDeposits + 1
               /\ groupReserve' = groupReserve + penalty
               /\ poolBal' = IF recall THEN poolBal - c0.yield_deposited ELSE poolBal
               /\ contractBal' = contractBal + total
                                 + (IF recall THEN c0.yield_deposited ELSE 0)
               /\ members' = [members EXCEPT ![user] =
                     [m EXCEPT !.contribution_count = m.contribution_count + 1,
                               !.last_contribution_time = now,
                               !.total_contributed = m.total_contributed
                                                     + c.contribution_amount]]
               /\ roundContrib' = SetContrib(roundContrib, cid, m.index, owed)
               /\ circles' = [circles EXCEPT ![cid] = c2]
               /\ last' = Ok("deposit", user, cid, total, NoAddr, HealthEvent(c2))
               /\ UNCHANGED <<now, ticks, nYield, nRecover, audit, lendingPool, circleCount, home,
                              pendingExit, scheduled, finalizedPot, referrals, nft>>

\* ------------------------------------------------------------ yield buffer
\* Faulty variant of IsOperator: the protocol admin is turned away.
IsCreatorOnly(caller, c) == caller = c.creator

\* caller != circle.creator && caller != stored_admin
IsOperator(caller, c) == caller = c.creator \/ caller = Admin

\* deposit_to_yield_pool(caller, circle_id, amount)
DepositToYieldPool(caller, cid, amount) ==
  IF amount = 0 THEN Abort("deposit_to_yield_pool", "validation",
      caller, cid, amount, NoAddr, NoAddr)
  ELSE IF ~HasCircle(cid) THEN Abort("deposit_to_yield_pool", "not-found",
      caller, cid, amount, NoAddr, NoAddr)
  ELSE IF ~IsOperator(caller, circles[cid]) THEN Abort("deposit_to_yield_pool", "auth",
      caller, cid, amount, NoAddr, NoAddr)
  ELSE IF ~lendingPool THEN Abort("deposit_to_yield_pool", "no-pool",
      caller, cid, amount, NoAddr, NoAddr)
  ELSE IF contractBal < amount THEN Abort("deposit_to_yield_pool", "funds",
      caller, cid, amount, NoAddr, NoAddr)
  ELSE /\ nYield < MaxYieldOps
       /\ nYield' = nYield + 1
       /\ contractBal' = contractBal - amount
       /\ poolBal' = poolBal + amount
       /\ circles' = [circles EXCEPT ![cid].yield_deposited = @ + amount]
       /\ last' = Ok("deposit_to_yield_pool", caller, cid, amount, NoAddr, NoEvent)
       /\ UNCHANGED <<now, ticks, nDeposits, nRecover, audit, lendingPool, circleCount, members, home,
                      pendingExit, groupReserve, scheduled, finalizedPot, roundContrib, referrals, nft>>

\* The pending duration is adopted once its effective time has come.
AdoptDuration(c) ==
  IF c.pending_cycle_duration > 0 /\ now >= c.duration_change_effective_at
  THEN [c EXCEPT !.cycle_duration = c.pending_cycle_duration,
                 !.pending_cycle_duration = 0,
                 !.duration_change_effective_at = 0]
  ELSE c

\* The indices `member.index` can denote in prepare_payout_liquidity, where no
\* `member` is bound: the index of any stored member record.
StoredIndices == {members[a].index : a \in {x \in Addrs : HasMember(x)}}

\* prepare_payout_liquidity(caller, circle_id); idx is the index the unbound
\* `member.index` of line 612 denotes (-1: no member record is stored).
PreparePayoutLiquidity(caller, cid, idx) ==
  IF ~HasCircle(cid) THEN Abort("prepare_payout_liquidity", "not-found",
      caller, cid, 0, NoAddr, NoAddr)
  ELSE IF ~IsOperator(caller, circles[cid])
    THEN Abort("prepare_payout_liquidity", "auth",
      caller, cid, 0, NoAddr, NoAddr)
  ELSE IF circles[cid].yield_deposited = 0
    THEN /\ last' = Ok("prepare_payout_liquidity", caller, cid, 0, NoAddr, NoEvent)
         /\ UNCHANGED <<store, now, counters>>
  ELSE IF ~lendingPool THEN Abort("prepare_payout_liquidity", "no-pool",
      caller, cid, 0, NoAddr, NoAddr)
  ELSE IF poolBal < circles[cid].yield_deposited
    THEN Abort("prepare_payout_liquidity", "funds",
      caller, cid, 0, NoAddr, NoAddr)
  ELSE LET c0 == circles[cid]
           c1 == AdoptDuration([c0 EXCEPT !.yield_deposited = 0])
           c2 == [c1 EXCEPT !.deadline_timestamp = now + c1.cycle_duration,
                            !.contribution_bitmap =
                               IF idx < 0 THEN c1.contribution_bitmap
                               ELSE SetBit(c1.contribution_bitmap, idx)]
       IN /\ (idx \in StoredIndices \/ (idx = -1 /\ StoredIndices = {}))
          /\ poolBal' = poolBal - c0.yield_deposited
          /\ contractBal' = contractBal + c0.yield_deposited
          /\ circles' = [circles EXCEPT ![cid] = c2]
          /\ last' = Ok("prepare_payout_liquidity", caller, cid, c0.yield_deposited,
                        NoAddr, NoEvent)
          /\ UNCHANGED <<now, counters, lendingPool, circleCount, members, home,
                         pendingExit, groupReserve, scheduled, finalizedPot, roundContrib,
                         referrals, nft>>

\* ---------------------------------------------------------------- insurance
\* Faulty variant of InsuranceUsed: the flag is ignored.
InsuranceNeverUsed(c) == FALSE

\* Whether insurance has already paid for a member in the current round.
InsuranceUsed(c) == c.is_insurance_used

\* trigger_insurance_coverage(caller, circle_id, member)
TriggerInsuranceCoverage(caller, cid, member) ==
  IF ~HasCircle(cid) THEN Abort("trigger_insurance_coverage", "not-found",
      caller, cid, 0, member, NoAddr)
  ELSE LET c == circles[cid]
           m == members[member]
       IN IF caller # c.creator THEN Abort("trigger_insurance_coverage", "auth",
      caller, cid, 0, member, NoAddr)
          ELSE IF InsuranceUsed(c)
            THEN Abort("trigger_insurance_coverage", "insurance-used",
      caller, cid, 0, member, NoAddr)
          ELSE IF c.insurance_balance < c.contribution_amount
            THEN Abort("trigger_insurance_coverage", "insufficient-insurance",
      caller, cid, 0, member, NoAddr)
          ELSE IF ~HasMember(member) THEN Abort("trigger_insurance_coverage", "not-found",
      caller, cid, 0, member, NoAddr)
          ELSE IF m.status # Active THEN Abort("trigger_insurance_coverage", "state",
      caller, cid, 0, member, NoAddr)
          ELSE IF HasBit(c.contribution_bitmap, m.index)
            THEN Abort("trigger_insurance_coverage", "already-contributed",
      caller, cid, 0, member, NoAddr)
          ELSE /\ circles' = [circles EXCEPT ![cid] =
                     [c EXCEPT !.contribution_bitmap = SetBit(c.contribution_bitmap, m.index),
                               !.insurance_balance = c.insurance_balance
                                                     - c.contribution_amount,
                               !.is_insurance_used = TRUE]]
               /\ last' = Ok("trigger_insurance_coverage", caller, cid,
                             c.contribution_amount, member, NoEvent)
               /\ UNCHANGED <<now, counters, lendingPool, circleCount, members, home,
                              pendingExit, groupReserve, scheduled, finalizedPot, roundContrib,
                              referrals, contractBal, poolBal, nft>>

\* ------------------------------------------------------ late-fee governance
\* Faulty variant of HasMajority: half of the slots is enough.
HasMajorityAtLeast(votes, member_count) == CountOnes(votes) >= member_count \div 2

\* proposal_votes_bitmap.count_ones() > (member_count as u32 / 2)
HasMajority(votes, member_count) == CountOnes(votes) > member_count \div 2

\* The tail shared by propose_penalty_change and vote_penalty_change: commit
\* the proposed rate once the votes pass the majority.
TallyPenalty(c) ==
  IF HasMajority(c.proposal_votes_bitmap, c.member_count)
  THEN [c EXCEPT !.late_fee_bps = c.proposed_late_fee_bps,
                 !.proposed_late_fee_bps = 0,
                 !.proposal_votes_bitmap = 0]
  ELSE c

\* Faulty variant of ProposalVotes: the votes of the pending proposal are kept.
ProposalVotesKept(c, index) == SetBit(c.proposal_votes_bitmap, index)

\* proposal_votes_bitmap = 0; proposal_votes_bitmap |= 1 << member.index
ProposalVotes(c, index) == SetBit(0, index)

\* propose_penalty_change(user, circle_id, new_bps)
ProposePenaltyChange(user, cid, new_bps) ==
  IF ~HasCircle(cid) THEN Abort("propose_penalty_change", "not-found",
      user, cid, new_bps, NoAddr, NoAddr)
  ELSE IF ~HasMember(user) THEN Abort("propose_penalty_change", "not-found",
      user, cid, new_bps, NoAddr, NoAddr)
  ELSE IF members[user].status # Active THEN Abort("propose_penalty_change", "state",
      user, cid, new_bps, NoAddr, NoAddr)
  ELSE IF new_bps > BPS_DENOMINATOR THEN Abort("propose_penalty_change", "validation",
      user, cid, new_bps, NoAddr, NoAddr)
  ELSE LET c == circles[cid]
           c1 == [c EXCEPT !.proposed_late_fee_bps = new_bps,
                           !.proposal_votes_bitmap = ProposalVotes(c, members[user].index)]
       IN /\ circles' = [circles EXCEPT ![cid] = TallyPenalty(c1)]
          /\ last' = Ok("propose_penalty_change", user, cid, new_bps, NoAddr, NoEvent)
          /\ UNCHANGED <<now, counters, lendingPool, circleCount, members, home,
                         pendingExit, groupReserve, scheduled, finalizedPot, roundContrib,
                         referrals, contractBal, poolBal, nft>>

\* vote_penalty_change(user, circle_id)
VotePenaltyChange(user, cid) ==
  IF ~HasCircle(cid) THEN Abort("vote_penalty_change", "not-found",
      user, cid, 0, NoAddr, NoAddr)
  ELSE IF ~HasMember(user) THEN Abort("vote_penalty_change", "not-found",
      user, cid, 0, NoAddr, NoAddr)
  ELSE IF members[user].status # Active THEN Abort("vote_penalty_change", "state",
      user, cid, 0, NoAddr, NoAddr)
  ELSE IF circles[cid].proposed_late_fee_bps = 0
    THEN Abort("vote_penalty_change", "no-proposal",
      user, cid, 0, NoAddr, NoAddr)
  ELSE LET c == circles[cid]
           c1 == [c EXCEPT !.proposal_votes_bitmap =
                             SetBit(c.proposal_votes_bitmap, members[user].index)]
       IN /\ circles' = [circles EXCEPT ![cid] = TallyPenalty(c1)]
          /\ last' = Ok("vote_penalty_change", user, cid, c.proposed_late_fee_bps,
                        NoAddr, NoEvent)
          /\ UNCHANGED <<now, counters, lendingPool, circleCount, members, home,
                         pendingExit, groupReserve, scheduled, finalizedPot, roundContrib,
                         referrals, contractBal, poolBal, nft>>

\* propose_duration_change(user, circle_id, new_duration)
ProposeDurationChange(user, cid, new_duration) ==
  IF new_duration = 0 THEN Abort("propose_duration_change", "validation",
      user, cid, new_duration, NoAddr, NoAddr)
  ELSE IF ~HasCircle(cid) THEN Abort("propose_duration_change", "not-found",
      user, cid, new_duration, NoAddr, NoAddr)
  ELSE IF ~IsOperator(user, circles[cid]) THEN Abort("propose_duration_change", "auth",
      user, cid, new_duration, NoAddr, NoAddr)
  ELSE /\ circles' = [circles EXCEPT ![cid] =
             [@ EXCEPT !.pending_cycle_duration = new_duration,
                       !.duration_change_effective_at = now + DURATION_CHANGE_NOTICE_SECS]]
       /\ last' = Ok("propose_duration_change", user, cid, new_duration, NoAddr, NoEvent)
       /\ UNCHANGED <<now, counters, lendingPool, circleCount, members, home,
                      pendingExit, groupReserve, scheduled, finalizedPot, roundContrib,
                      referrals, contractBal, poolBal, nft>>

\* ------------------------------------------------------------ exit, vacancy
\* Faulty variant of EjectTargetOk: only an Ejected target is refused.
EjectTargetNotEjected(m) == m.status # Ejected

\* member_info.status != MemberStatus::Active
EjectTargetOk(m) == m.status = Active

\* eject_member(caller, circle_id, member)
EjectMember(caller, cid, member) ==
  IF ~HasCircle(cid) THEN Abort("eject_member", "not-found",
      caller, cid, 0, member, NoAddr)
  ELSE IF caller # circles[cid].creator THEN Abort("eject_member", "auth",
      caller, cid, 0, member, NoAddr)
  ELSE IF ~HasMember(member) THEN Abort("eject_member", "not-found",
      caller, cid, 0, member, NoAddr)
  ELSE IF ~EjectTargetOk(members[member]) THEN Abort("eject_member", "state",
      caller, cid, 0, member, NoAddr)
  ELSE /\ members' = [members EXCEPT ![member].status = Ejected]
       /\ nft' = nft \ {<<cid, members[member].index, member>>}
       /\ last' = Ok("eject_member", caller, cid, 0, member, NoEvent)
       /\ UNCHANGED <<now, counters, lendingPool, circleCount, circles, home,
                      pendingExit, groupReserve, scheduled, finalizedPot, roundContrib,
                      referrals, contractBal, poolBal>>

\* request_exit(user, circle_id)
RequestExit(user, cid) ==
  IF ~HasCircle(cid) THEN Abort("request_exit", "not-found",
      user, cid, 0, NoAddr, NoAddr)
  ELSE IF ~HasMember(user) THEN Abort("request_exit", "not-found",
      user, cid, 0, NoAddr, NoAddr)
  ELSE IF members[user].status # Active THEN Abort("request_exit", "state",
      user, cid, 0, NoAddr, NoAddr)
  ELSE /\ members' = [members EXCEPT ![user].status = AwaitingReplacement]
       /\ pendingExit' = pendingExit \cup {<<cid, user>>}
       /\ last' = Ok("request_exit", user, cid, 0, NoAddr, NoEvent)
       /\ UNCHANGED <<now, counters, lendingPool, circleCount, circles, home,
                      groupReserve, scheduled, finalizedPot, roundContrib, referrals,
                      contractBal, poolBal, nft>>

\* Faulty variant of RefundAmount: the refund scaled by the member's tier.
RefundAmountTiered(c, m) ==
  m.contribution_count * c.contribution_amount * m.tier_multiplier

\* exiting_member.contribution_count as u64 * circle.contribution_amount
RefundAmount(c, m) == m.contribution_count * c.contribution_amount

\* Faulty variant of InheritedIndex: the replacement takes the slot after the
\* exiting member's.
InheritedIndexNext(old) == old.index + 1

\* index: exiting_member.index
InheritedIndex(old) == old.index

\* fill_vacancy(new_member, circle_id, exiting_member_address); tier is the value
\* of the tier_multiplier field, which the replacement's struct literal leaves out.
\* The pot computation spliced in before the refund (its `if` is never closed)
\* writes nothing and, going by the indentation, guards nothing.
FillVacancy(new_member, cid, exiting, tier) ==
  IF ~HasCircle(cid) THEN Abort("fill_vacancy", "not-found",
      new_member, cid, 0, exiting, NoAddr)
  ELSE IF <<cid, exiting>> \notin pendingExit THEN Abort("fill_vacancy", "no-pending-exit",
      new_member, cid, 0, exiting, NoAddr)
  ELSE IF ~HasMember(exiting) THEN Abort("fill_vacancy", "not-found",
      new_member, cid, 0, exiting, NoAddr)
  ELSE IF members[exiting].status # AwaitingReplacement THEN Abort("fill_vacancy", "state",
      new_member, cid, 0, exiting, NoAddr)
  ELSE IF HasMember(new_member) THEN Abort("fill_vacancy", "already-member",
      new_member, cid, 0, exiting, NoAddr)
  ELSE LET c == circles[cid]
           old == members[exiting]
           refund == RefundAmount(c, old)
       IN IF refund > contractBal THEN Abort("fill_vacancy", "funds",
      new_member, cid, 0, exiting, NoAddr)
          ELSE /\ contractBal' = contractBal - refund
               /\ members' = [members EXCEPT
                     ![new_member] = NewMember(InheritedIndex(old), tier),
                     ![exiting] = [old EXCEPT !.status = Ejected]]
               /\ home' = [home EXCEPT ![new_member] = cid]
               /\ pendingExit' = pendingExit \ {<<cid, exiting>>}
               /\ nft' = (nft \ {<<cid, old.index, exiting>>})
                         \cup {<<cid, old.index, new_member>>}
               /\ last' = Ok("fill_vacancy", new_member, cid, refund, exiting, NoEvent)
               /\ UNCHANGED <<now, counters, lendingPool, circleCount, circles,
                              groupReserve, scheduled, finalizedPot, roundContrib, referrals, poolBal>>

\* ------------------------------------------------------------ finalization
\* The sum of the contributions recorded for the indices below n of circle cid:
\* for i in 0..member_count { pot_amount += CurrentRoundContribution(id, i) }
RECURSIVE RoundContribSum(_, _, _)
RoundContribSum(rc, cid, n) ==
  IF n = 0 THEN 0
  ELSE LET here == {t \in rc : t[1] = cid /\ t[2] = n - 1}
       IN (IF here = {} THEN 0 ELSE (CHOOSE t \in here : TRUE)[3])
          + RoundContribSum(rc, cid, n - 1)

\* Faulty variant of NextRecipientIndex: the pointer does not move.
NextRecipientIndexStay(c) == c.current_recipient_index

\* Faulty variant of NextRecipientIndex: the pointer wraps at member_count.
NextRecipientIndexByCount(c) == (c.current_recipient_index + 1) % c.member_count

\* (circle.current_recipient_index + 1) % circle.max_members
NextRecipientIndex(c) == (c.current_recipient_index + 1) % c.max_members

\* Faulty variant of RoundComplete: one contribution is enough.
RoundCompleteAnyPaid(c) == c.contribution_bitmap # 0

\* circle.contribution_bitmap == (1u64 << circle.member_count) - 1
RoundComplete(c) == c.contribution_bitmap = FullBitmap(c.member_count)

\* execute_finalize_round(operation) for operation.circle_id = cid
FinalizeRound(cid) ==
  IF ~HasCircle(cid) THEN Abort("finalize_round", "not-found",
      NoAddr, cid, 0, NoAddr, NoAddr)
  ELSE LET c == circles[cid]
           cri == c.current_recipient_index
       IN IF c.is_round_finalized THEN Abort("finalize_round", "already-finalized",
      NoAddr, cid, 0, NoAddr, NoAddr)
          ELSE IF ~RoundComplete(c)
            THEN Abort("finalize_round", "incomplete",
      NoAddr, cid, 0, NoAddr, NoAddr)
          ELSE IF cri >= c.member_count THEN Abort("finalize_round", "index-out-of-bounds",
      NoAddr, cid, 0, NoAddr, NoAddr)
          ELSE /\ scheduled' = {t \in scheduled : t[1] # cid}
                               \cup {<<cid, now + PAYOUT_DELAY_SECS>>}
               /\ finalizedPot' = {t \in finalizedPot : t[1] # cid}
                     \cup {<<cid, RoundContribSum(roundContrib, cid, c.member_count)>>}
               /\ circles' = [circles EXCEPT ![cid] =
                     [c EXCEPT !.current_pot_recipient = c.member_addresses[cri + 1],
                               !.is_round_finalized = TRUE,
                               !.contribution_bitmap = 0,
                               !.payout_bitmap = SetBit(c.payout_bitmap, cri),
                               !.current_recipient_index = NextRecipientIndex(c),
                               !.insurance_balance = 0,
                               !.is_insurance_used = FALSE]]
               /\ roundContrib' = {t \in roundContrib :
                                     ~(t[1] = cid /\ t[2] < c.member_count)}
               /\ last' = Ok("finalize_round", NoAddr, cid, 0,
                             c.member_addresses[cri + 1], NoEvent)
               /\ UNCHANGED <<now, counters, lendingPool, circleCount, members, home,
                              pendingExit, groupReserve, referrals, contractBal,
                              poolBal, nft>>

\* ---------------------------------------------------------------- claim
\* The pot: the recorded contributions of the round, or contribution_amount *
\* member_count when none is recorded.
PotAmount(c, cid) ==
  LET sum == RoundContribSum(roundContrib, cid, c.member_count)
  IN IF sum = 0 THEN c.contribution_amount * c.member_count ELSE sum

\* Faulty variant of ClaimDue: the claim is open as soon as it is scheduled.
ClaimDueOnceScheduled(cid) ==
  \E t \in scheduled : t[1] = cid

\* The scheduled payout time of circle cid has been reached.
ClaimDue(cid) ==
  \E t \in scheduled : t[1] = cid /\ now >= t[2]

\* claim_pot(user, circle_id): the designated recipient takes the pot of the
\* finalized round at or after the scheduled time; the round-finalized flag
\* and the scheduled time are cleared.
ClaimPot(user, cid) ==
  IF ~HasCircle(cid) THEN Abort("claim_pot", "not-found",
      user, cid, 0, NoAddr, NoAddr)
  ELSE LET c == circles[cid]
           pot == PotAmount(c, cid)
       IN IF ~c.is_round_finalized THEN Abort("claim_pot", "not-finalized",
      user, cid, 0, NoAddr, NoAddr)
          ELSE IF user # c.current_pot_recipient THEN Abort("claim_pot", "auth",
      user, cid, 0, NoAddr, NoAddr)
          ELSE IF ~ClaimDue(cid) THEN Abort("claim_pot", "too-early",
      user, cid, 0, NoAddr, NoAddr)
          ELSE IF pot > contractBal THEN Abort("claim_pot", "funds",
      user, cid, 0, NoAddr, NoAddr)
          ELSE /\ contractBal' = contractBal - pot
               /\ circles' = [circles EXCEPT ![cid].is_round_finalized = FALSE]
               /\ scheduled' = {t \in scheduled : t[1] # cid}
               /\ last' = Ok("claim_pot", user, cid, pot, user, NoEvent)
               /\ UNCHANGED <<now, counters, lendingPool, circleCount, members, home,
                              pendingExit, groupReserve, finalizedPot, roundContrib,
                              referrals, poolBal, nft>>

\* ---------------------------------------------------------- social recovery
\* The number of members of circle cid whose status is Active.
ActiveMemberCount(cid) ==
  Cardinality({a \in Addrs : members[a].status = Active /\ home[a] = cid})

\* Faulty variant of RecoveryConsensus: a simple majority is enough.
RecoveryConsensusMajority(votes, active) == CountOnes(votes) * 2 > active

\* votes * 100 > active_member_count * 70
RecoveryConsensus(votes, active) ==
  CountOnes(votes) * 100 > active * RECOVERY_THRESHOLD_PCT

\* Faulty variant of RewriteAddress: the list keeps the old identity.
RewriteAddressKeep(addrs, index, new) == addrs

\* The member-address list with the entry of slot `index` rewritten.
RewriteAddress(addrs, index, new) ==
  [i \in DOMAIN addrs |-> IF i = index + 1 THEN new ELSE addrs[i]]

\* Evaluate consensus on the stored proposal and execute it when reached:
\* the record moves to the new key, the old key is removed, the address list
\* entry is rewritten and the proposal is cleared.
EvaluateRecovery(user, cid, c, op) ==
  IF RecoveryConsensus(c.recovery_votes_bitmap, ActiveMemberCount(cid))
  THEN LET old == c.recovery_old_address
           new == c.recovery_new_address
           rec == members[old]
       IN /\ nRecover < MaxRecoveries
          /\ nRecover' = nRecover + 1
          /\ members' = [members EXCEPT ![new] = rec, ![old] = NoMember]
          /\ home' = [home EXCEPT ![new] = home[old], ![old] = 0]
          /\ circles' = [circles EXCEPT ![cid] =
                [c EXCEPT !.member_addresses =
                              RewriteAddress(c.member_addresses, rec.index, new),
                          !.recovery_old_address = NoAddr,
                          !.recovery_new_address = NoAddr,
                          !.recovery_votes_bitmap = 0]]
          /\ last' = [Ok(op, user, cid, 1, new, NoEvent) EXCEPT !.other = old]
  ELSE /\ circles' = [circles EXCEPT ![cid] = c]
       /\ last' = [Ok(op, user, cid, 0, c.recovery_new_address, NoEvent)
                      EXCEPT !.other = c.recovery_old_address]
       /\ UNCHANGED <<members, home, nRecover>>

\* Faulty variant of RecoveryProposalOk: the new identity is not checked.
RecoveryProposalOkLax(user, old, new) ==
  /\ old # new
  /\ members[user].status = Active
  /\ members[old].status = Active

\* The preconditions of propose_address_change.
RecoveryProposalOk(user, old, new) ==
  /\ old # new
  /\ members[user].status = Active
  /\ members[old].status = Active
  /\ ~HasMember(new)

\* propose_address_change(user, circle_id, old_identity, new_identity)
ProposeAddressChange(user, cid, old, new) ==
  IF ~HasCircle(cid) THEN Abort("propose_address_change", "not-found",
      user, cid, 0, new, old)
  ELSE IF circles[cid].recovery_old_address # NoAddr
    THEN Abort("propose_address_change", "proposal-active",
      user, cid, 0, new, old)
  ELSE IF ~RecoveryProposalOk(user, old, new)
    THEN Abort("propose_address_change", "rejected",
      user, cid, 0, new, old)
  ELSE /\ EvaluateRecovery(user, cid,
             [circles[cid] EXCEPT !.recovery_old_address = old,
                                  !.recovery_new_address = new,
                                  !.recovery_votes_bitmap = SetBit(0, members[user].index)],
             "propose_address_change")
       /\ UNCHANGED <<now, ticks, nDeposits, nYield, audit, lendingPool, circleCount, pendingExit,
                      groupReserve, scheduled, finalizedPot, roundContrib, referrals,
                      contractBal, poolBal, nft>>

\* vote_for_recovery(user, circle_id)
VoteForRecovery(user, cid) ==
  IF ~HasCircle(cid) THEN Abort("vote_for_recovery", "not-found",
      user, cid, 0, NoAddr, NoAddr)
  ELSE IF circles[cid].recovery_old_address = NoAddr
    THEN Abort("vote_for_recovery", "no-proposal",
      user, cid, 0, NoAddr, NoAddr)
  ELSE IF members[user].status # Active THEN Abort("vote_for_recovery", "state",
      user, cid, 0, NoAddr, NoAddr)
  ELSE /\ EvaluateRecovery(user, cid,
             [circles[cid] EXCEPT !.recovery_votes_bitmap =
                                     SetBit(@, members[user].index)],
             "vote_for_recovery")
       /\ UNCHANGED <<now, ticks, nDeposits, nYield, audit, lendingPool, circleCount, pendingExit,
                      groupReserve, scheduled, finalizedPot, roundContrib, referrals,
                      contractBal, poolBal, nft>>

\* ------------------------------------------------------------ specifications
FirstUsers(n) == {UserSeq[i] : i \in 1..n}

\* Identities are interchangeable: a call that needs an identity holding no
\* record takes the first such identity among the first n.
FreshUser(n) ==
  {UserSeq[i] : i \in {j \in 1..n : /\ ~HasMember(UserSeq[j])
                                    /\ \A k \in 1..(j - 1) : HasMember(UserSeq[k])}}

CircleIds == 1..MaxCircles

\* Membership: create_circle, join_circle, request_exit, fill_vacancy and
\* eject_member over up to MaxCircles circles.
NextMembership ==
  \/ \E mm \in {1, 2, MAX_MEMBERS_CAP, MAX_MEMBERS_CAP + 1} :
       CreateCircle(Creator, 500, mm, 604800, 0)
  \/ \E u \in FreshUser(MaxUsers), cid \in CircleIds : JoinCircle(u, cid, 1, NoAddr)
  \/ \E u \in FirstUsers(MaxUsers), cid \in CircleIds : RequestExit(u, cid)
  \/ \E u \in FreshUser(MaxUsers), x \in FirstUsers(MaxUsers), cid \in CircleIds :
       FillVacancy(u, cid, x, 1)
  \/ \E u \in FirstUsers(MaxUsers), cid \in CircleIds : EjectMember(Creator, cid, u)

SpecMembership == Init /\ [][NextMembership]_vars

\* Rounds: contributions, insurance cover and finalization over up to
\* MaxCircles circles of two slots.
NextRound ==
  \/ CreateCircle(Creator, 500, 2, 604800, 10000)
  \/ \E u \in FreshUser(MaxUsers), cid \in CircleIds : JoinCircle(u, cid, 1, NoAddr)
  \/ \E u \in FirstUsers(MaxUsers), cid \in CircleIds : Deposit(u, cid, TRUE)
  \/ \E u \in FirstUsers(MaxUsers), cid \in CircleIds :
       TriggerInsuranceCoverage(Creator, cid, u)
  \/ \E cid \in CircleIds : FinalizeRound(cid)

SpecRound == Init /\ [][NextRound]_vars

\* Late-fee governance with members leaving the Active status.
NextGov ==
  \/ \E mm \in {1, 4} : CreateCircle(Creator, 500, mm, 604800, 0)
  \/ \E u \in FreshUser(MaxUsers), cid \in CircleIds : JoinCircle(u, cid, 1, NoAddr)
  \/ \E u \in FirstUsers(MaxUsers), cid \in CircleIds : EjectMember(Creator, cid, u)
  \/ \E u \in FirstUsers(MaxUsers), cid \in CircleIds, bps \in {0, 500, 10001} :
       ProposePenaltyChange(u, cid, bps)
  \/ \E u \in FirstUsers(MaxUsers), cid \in CircleIds : VotePenaltyChange(u, cid)

SpecGov == Init /\ [][NextGov]_vars

\* Social recovery in one circle.
NextRecovery ==
  \/ circleCount = 0 /\ CreateCircle(Creator, 1000, MaxUsers + 1, 604800, 0)
  \/ \E u \in FreshUser(MaxUsers + 2) : JoinCircle(u, 1, 1, NoAddr)
  \/ \E u \in FirstUsers(MaxUsers + 2) : EjectMember(Creator, 1, u)
  \/ \E u, old, new \in FirstUsers(MaxUsers + 2) : ProposeAddressChange(u, 1, old, new)
  \/ \E u \in FirstUsers(MaxUsers + 2) : VoteForRecovery(u, 1)

SpecRecovery == Init /\ [][NextRecovery]_vars

\* Deposits against the clock: duration changes with their notice period, and
\* late fees of members who referred others.
NextDeposit ==
  \/ circleCount = 0 /\ CreateCircle(Creator, 100000, 3, 604800, 0)
  \/ \E u \in FreshUser(MaxUsers), r \in FirstUsers(MaxUsers) \cup {NoAddr} :
       JoinCircle(u, 1, 1, r)
  \/ \E d \in {604800, 2592000} : ProposeDurationChange(Creator, 1, d)
  \/ \E d \in {1, DURATION_CHANGE_NOTICE_SECS - 1, 604800} : Tick(d)
  \/ \E u \in FirstUsers(MaxUsers) : Deposit(u, 1, TRUE)

SpecDeposit == Init /\ [][NextDeposit]_vars

\* Graceful exit with refund, after on-time and late deposits by members of
\* either tier.
NextVacancy ==
  \/ circleCount = 0 /\ CreateCircle(Creator, 500, 3, 604800, 1000)
  \/ \E u \in FreshUser(MaxUsers), t \in {1, 2} : JoinCircle(u, 1, t, NoAddr)
  \/ Tick(604801)
  \/ \E u \in FirstUsers(MaxUsers) : Deposit(u, 1, TRUE)
  \/ \E u \in FirstUsers(MaxUsers) : RequestExit(u, 1)
  \/ \E u \in FreshUser(MaxUsers), x \in FirstUsers(MaxUsers), t \in {1, 2} :
       FillVacancy(u, 1, x, t)

SpecVacancy == Init /\ [][NextVacancy]_vars

\* Social recovery proposals in one circle of two slots, with rejected calls
\* logged.
NextRecoveryAudit ==
  \/ circleCount = 0 /\ CreateCircle(Creator, 1000, 2, 604800, 0)
  \/ \E u \in FreshUser(MaxUsers) : JoinCircle(u, 1, 1, NoAddr)
  \/ \E u \in FirstUsers(MaxUsers) : EjectMember(Creator, 1, u)
  \/ \E u, old, new \in FirstUsers(MaxUsers) : ProposeAddressChange(u, 1, old, new)
  \/ \E u \in FirstUsers(MaxUsers) : VoteForRecovery(u, 1)

SpecRecoveryAudit == InitAudit /\ [][NextRecoveryAudit]_vars

\* Circle creation and joining around the capacity limit, with rejected calls
\* logged.
NextCreateAudit ==
  \/ \E mm \in {1, MAX_MEMBERS_CAP, MAX_MEMBERS_CAP + 1} :
       CreateCircle(Creator, 500, mm, 604800, 0)
  \/ \E u \in FirstUsers(MaxUsers), cid \in CircleIds : JoinCircle(u, cid, 1, NoAddr)

SpecCreateAudit == InitAudit /\ [][NextCreateAudit]_vars

\* Ejection with rejected calls logged: two circles of one creator, members
\* that pay and leave, and ejections attempted by the creator and by members.
NextEjectAudit ==
  \/ CreateCircle(Creator, 500, 2, 604800, 0)
  \/ \E u \in FirstUsers(MaxUsers), cid \in CircleIds : JoinCircle(u, cid, 1, NoAddr)
  \/ nDeposits = 0 /\ \E u \in FirstUsers(MaxUsers) : Deposit(u, 1, TRUE)
  \/ \E u \in FirstUsers(MaxUsers) : RequestExit(u, 1)
  \/ \E caller \in {Creator, UserSeq[1]},
        cid \in CircleIds, u \in FirstUsers(MaxUsers) : EjectMember(caller, cid, u)
SpecEjectAudit == InitAudit /\ [][NextEjectAudit]_vars

\* Members that are leaving or ejected keep calling deposit and the penalty
\* governance of their circle; rejected calls are logged.
NextInactiveAudit ==
  \/ circleCount = 0 /\ CreateCircle(Creator, 500, 2, 604800, 0)
  \/ \E u \in FirstUsers(MaxUsers) : JoinCircle(u, 1, 1, NoAddr)
  \/ \E u \in FirstUsers(MaxUsers) : RequestExit(u, 1)
  \/ \E u \in FirstUsers(MaxUsers) : EjectMember(Creator, 1, u)
  \/ \E u \in FirstUsers(MaxUsers) : Deposit(u, 1, TRUE)
  \/ \E u \in FirstUsers(MaxUsers) : ProposePenaltyChange(u, 1, 200)
  \/ \E u \in FirstUsers(MaxUsers) : VotePenaltyChange(u, 1)
SpecInactiveAudit == InitAudit /\ [][NextInactiveAudit]_vars

\* Insurance cover in one circle of three slots whose insurance fee equals the
\* contribution, with members of either tier, some of them leaving; rejected
\* calls are logged.
NextInsuranceAudit ==
  \/ circleCount = 0 /\ CreateCircle(Creator, 500, 3, 604800, 10000)
  \/ \E u \in FreshUser(MaxUsers), t \in {1, 2} : JoinCircle(u, 1, t, NoAddr)
  \/ \E u \in FirstUsers(MaxUsers) : Deposit(u, 1, TRUE)
  \/ \E u \in FirstUsers(MaxUsers) : RequestExit(u, 1)
  \/ \E caller \in {Creator, UserSeq[1]}, u \in FirstUsers(MaxUsers) :
       TriggerInsuranceCoverage(caller, 1, u)
  \/ FinalizeRound(1)
SpecInsuranceAudit == InitAudit /\ [][NextInsuranceAudit]_vars

\* Fees of deposits: a circle of contribution 1000 with an insurance fee of
\* 333 bps, members of either tier, deposits at the deadline and after it, and
\* a vote that moves the late fee from 100 to 155 bps.
NextFees ==
  \/ circleCount = 0 /\ CreateCircle(Creator, 1000, 2, 604800, 333)
  \/ \E u \in FreshUser(MaxUsers), t \in {1, 2} : JoinCircle(u, 1, t, NoAddr)
  \/ \E d \in {604800, 604801} : Tick(d)
  \/ \E u \in FirstUsers(MaxUsers) : Deposit(u, 1, TRUE)
  \/ \E u \in FirstUsers(MaxUsers) : ProposePenaltyChange(u, 1, 155)
  \/ \E u \in FirstUsers(MaxUsers) : VotePenaltyChange(u, 1)
SpecFees == Init /\ [][NextFees]_vars

\* Late fees with several circles: deposits before and after the deadline.
NextReserve ==
  \/ CreateCircle(Creator, 1000, 2, 604800, 0)
  \/ \E u \in FreshUser(MaxUsers), cid \in CircleIds : JoinCircle(u, cid, 1, NoAddr)
  \/ Tick(604801)
  \/ \E u \in FirstUsers(MaxUsers), cid \in CircleIds : Deposit(u, cid, TRUE)
SpecReserve == Init /\ [][NextReserve]_vars

\* Finalization in circles of one and two slots, full or not, whose rounds are
\* completed by deposits and by insurance cover.
NextFinalize ==
  \/ \E mm \in {1, 2} : CreateCircle(Creator, 500, mm, 604800, 10000)
  \/ \E u \in FreshUser(MaxUsers), cid \in CircleIds : JoinCircle(u, cid, 1, NoAddr)
  \/ Tick(3600)
  \/ \E u \in FirstUsers(MaxUsers) : Deposit(u, home[u], TRUE)
  \/ \E u \in FirstUsers(MaxUsers) : TriggerInsuranceCoverage(Creator, home[u], u)
  \/ \E cid \in CircleIds : FinalizeRound(cid)
SpecFinalize == Init /\ [][NextFinalize]_vars

\* Rounds one after the other in a circle of one or two slots: contributions
\* and insurance cover, finalization, and the claim a day later.
NextRotation ==
  \/ circleCount = 0 /\ \E mm \in {1, 2} : CreateCircle(Creator, 500, mm, 604800, 10000)
  \/ \E u \in FreshUser(MaxUsers), t \in {1, 2} : JoinCircle(u, 1, t, NoAddr)
  \/ Tick(PAYOUT_DELAY_SECS)
  \/ \E u \in FirstUsers(MaxUsers) : Deposit(u, 1, TRUE)
  \/ \E u \in FirstUsers(MaxUsers) : TriggerInsuranceCoverage(Creator, 1, u)
  \/ FinalizeRound(1)
  \/ \E u \in FirstUsers(MaxUsers) : ClaimPot(u, 1)
SpecRotation == Init /\ [][NextRotation]_vars

\* Claims of the pot by the recipient and by others, a second before the
\* scheduled time and at it; rejected calls are logged.
NextClaimAudit ==
  \/ circleCount = 0 /\ CreateCircle(Creator, 500, 2, 604800, 0)
  \/ \E u \in FreshUser(MaxUsers) : JoinCircle(u, 1, 1, NoAddr)
  \/ \E d \in {PAYOUT_DELAY_SECS - 1, 1} : Tick(d)
  \/ \E u \in FirstUsers(MaxUsers) : Deposit(u, 1, TRUE)
  \/ FinalizeRound(1)
  \/ \E u \in FirstUsers(MaxUsers) : ClaimPot(u, 1)
SpecClaimAudit == InitAudit /\ [][NextClaimAudit]_vars

\* Duration changes proposed by the creator, the admin and a member, with a
\* zero and a non-zero duration, between deposits; rejected calls are logged.
NextDurationAudit ==
  \/ circleCount = 0 /\ CreateCircle(Creator, 500, 2, 604800, 0)
  \/ \E u \in FreshUser(MaxUsers) : JoinCircle(u, 1, 1, NoAddr)
  \/ Tick(3600)
  \/ \E u \in FirstUsers(MaxUsers) : Deposit(u, 1, TRUE)
  \/ \E caller \in {Creator, Admin, UserSeq[1]}, d \in {0, 2592000} :
       ProposeDurationChange(caller, 1, d)
SpecDurationAudit == InitAudit /\ [][NextDurationAudit]_vars

\* Idle funds supplied to the lending pool and recalled, by
\* prepare_payout_liquidity and by deposits around the liquidity buffer before
\* the deadline; rejected calls are logged.
NextYieldAudit ==
  \/ circleCount = 0 /\ CreateCircle(Creator, 500, 2, 604800, 0)
  \/ \E u \in FreshUser(MaxUsers) : JoinCircle(u, 1, 1, NoAddr)
  \/ SetLendingPool(Admin)
  \/ \E d \in {604800 - YIELD_LIQUIDITY_BUFFER_SECS - 1, 1} : Tick(d)
  \/ \E u \in FirstUsers(MaxUsers) : Deposit(u, 1, TRUE)
  \/ DepositToYieldPool(Creator, 1, 500)
  \/ \E caller \in {Creator, Admin, UserSeq[1]}, idx \in -1..1 :
       PreparePayoutLiquidity(caller, 1, idx)
SpecYieldAudit == InitAudit /\ [][NextYieldAudit]_vars

\* Deposits that the token contract accepts or refuses, on time and late, with
\* funds supplied to the lending pool; rejected calls are logged.
NextAtomicAudit ==
  \/ circleCount = 0 /\ CreateCircle(Creator, 1000, 2, 604800, 1000)
  \/ \E u \in FreshUser(MaxUsers) : JoinCircle(u, 1, 1, NoAddr)
  \/ SetLendingPool(Admin)
  \/ Tick(604801)
  \/ \E u \in FirstUsers(MaxUsers), funded \in BOOLEAN : Deposit(u, 1, funded)
  \/ DepositToYieldPool(Creator, 1, 1000)
SpecAtomicAudit == InitAudit /\ [][NextAtomicAudit]_vars

\* Late-fee proposals of several rates, the rate 0 and a rate above 100%
\* included, and the votes on them in one circle of up to four members;
\* rejected calls are logged.
NextPenaltyAudit ==
  \/ circleCount = 0 /\ CreateCircle(Creator, 500, 4, 604800, 0)
  \/ \E u \in FreshUser(MaxUsers) : JoinCircle(u, 1, 1, NoAddr)
  \/ \E u \in FirstUsers(MaxUsers), bps \in {0, 200, 500, 10001} :
       ProposePenaltyChange(u, 1, bps)
  \/ \E u \in FirstUsers(MaxUsers) : VotePenaltyChange(u, 1)
SpecPenaltyAudit == InitAudit /\ [][NextPenaltyAudit]_vars

\* Rounds of one circle of two slots whose members exit and are replaced.
NextVacancyRound ==
  \/ circleCount = 0 /\ CreateCircle(Creator, 500, 2, 604800, 0)
  \/ \E u \in FreshUser(MaxUsers) : JoinCircle(u, 1, 1, NoAddr)
  \/ \E u \in FirstUsers(MaxUsers) : RequestExit(u, 1)
  \/ \E u \in FreshUser(MaxUsers), x \in FirstUsers(MaxUsers) : FillVacancy(u, 1, x, 1)
  \/ \E u \in FirstUsers(MaxUsers) : Deposit(u, 1, TRUE)
  \/ FinalizeRound(1)
SpecVacancyRound == Init /\ [][NextVacancyRound]_vars

\* Exits and replacements over several circles, with rejected calls logged.
NextExitAudit ==
  \/ CreateCircle(Creator, 500, 2, 604800, 0)
  \/ \E u \in FreshUser(MaxUsers), cid \in CircleIds : JoinCircle(u, cid, 1, NoAddr)
  \/ \E u \in FirstUsers(MaxUsers), cid \in CircleIds : RequestExit(u, cid)
  \/ \E u \in FreshUser(MaxUsers), x \in FirstUsers(MaxUsers), cid \in CircleIds :
       FillVacancy(u, cid, x, 1)
SpecExitAudit == InitAudit /\ [][NextExitAudit]_vars

\* Exits and replacements in one circle of two slots, by any identity and for
\* any identity, with rejected calls logged.
NextVacancyAudit ==
  \/ circleCount = 0 /\ CreateCircle(Creator, 500, 2, 604800, 0)
  \/ \E u \in FreshUser(MaxUsers) : JoinCircle(u, 1, 1, NoAddr)
  \/ \E u \in FirstUsers(MaxUsers) : Deposit(u, 1, TRUE)
  \/ \E u \in FirstUsers(MaxUsers) : RequestExit(u, 1)
  \/ \E u \in FirstUsers(MaxUsers), x \in FirstUsers(MaxUsers) :
       FillVacancy(u, 1, x, 1)
SpecVacancyAudit == InitAudit /\ [][NextVacancyAudit]_vars

\* The member life cycle in one circle of two slots: joins, exits, vacancies,
\* ejections and recovery attempts, with rejected calls logged.
NextStatusAudit ==
  \/ circleCount = 0 /\ CreateCircle(Creator, 500, 2, 604800, 0)
  \/ \E u \in FirstUsers(MaxUsers) : JoinCircle(u, 1, 1, NoAddr)
  \/ \E u \in FirstUsers(MaxUsers) : RequestExit(u, 1)
  \/ \E u, x \in FirstUsers(MaxUsers) : FillVacancy(u, 1, x, 1)
  \/ \E u \in FirstUsers(MaxUsers) : EjectMember(Creator, 1, u)
  \/ \E u, old, new \in FirstUsers(MaxUsers) : ProposeAddressChange(u, 1, old, new)
  \/ \E u \in FirstUsers(MaxUsers) : VoteForRecovery(u, 1)

SpecStatusAudit == InitAudit /\ [][NextStatusAudit]_vars

\* ==================================================================== claims
\* The circle a logged call addressed, before and after the call.
Called == circles[last'.cid]
CalledAfter == circles'[last'.cid]
Succeeded(op) == last'.op = op /\ last'.ok

\* C1: a member's deposit succeeds only while that member's bit of the
\* circle's contribution bitmap is clear, so a second deposit by the same
\* member in one round fails, and after finalization has cleared the bitmap
\* each member can deposit once again.
C1_OneDepositPerRound ==
  [][ Succeeded("deposit") =>
        ~HasBit(Called.contribution_bitmap, members[last'.user].index) ]_vars

\* A member of the addressed circle has deposited twice and no round of that
\* circle has been finalized in between.
C1_Witness ==
  /\ last.op = "deposit" /\ last.ok
  /\ home[last.user] = last.cid
  /\ members[last.user].contribution_count = 2
  /\ circles[last.cid].payout_bitmap = 0
  /\ ~circles[last.cid].is_round_finalized

\* C2: after any sequence of create_circle, join_circle, request_exit,
\* fill_vacancy and eject_member, every circle has
\* member_count <= max_members <= 64.
C2_MemberCountWithinCapacity ==
  \A cid \in DOMAIN circles :
     /\ circles[cid].member_count <= circles[cid].max_members
     /\ circles[cid].max_members <= 64

\* A circle filled to its capacity of two whose vacancy has just been filled.
C2_Witness ==
  /\ last.op = "fill_vacancy" /\ last.ok
  /\ circles[last.cid].member_count = 2
  /\ circles[last.cid].max_members = 2
  /\ \E cid \in DOMAIN circles : circles[cid].max_members = 64

\* C3: in every circle the contribution bitmap, the payout bitmap and the
\* late-fee vote bitmap have no bit set at an index >= member_count.
C3_BitmapsWithinMemberCount ==
  \A cid \in DOMAIN circles :
     /\ circles[cid].contribution_bitmap < Bit(circles[cid].member_count)
     /\ circles[cid].payout_bitmap < Bit(circles[cid].member_count)
     /\ circles[cid].proposal_votes_bitmap < Bit(circles[cid].member_count)

\* A circle nobody has joined holds a contribution bit, set by the deposit of
\* another circle's member.
C3_Witness ==
  /\ last.op = "deposit" /\ last.ok
  /\ home[last.user] # last.cid
  /\ circles[last.cid].member_count = 0
  /\ circles[last.cid].contribution_bitmap # 0

\* The late-fee vote bitmap once the caller of a propose_penalty_change or
\* vote_penalty_change call has been counted.
PenaltyStep ==
  Succeeded("propose_penalty_change") \/ Succeeded("vote_penalty_change")
PenaltyVotesAfter ==
  IF last'.op = "propose_penalty_change"
  THEN Bit(members[last'.user].index)
  ELSE SetBit(Called.proposal_votes_bitmap, members[last'.user].index)

\* C4 as stated: with N the number of the circle's Active members, a call that
\* proposes or votes commits the proposed rate exactly when strictly more than
\* N/2 votes are in (the proposer's included, repeated votes counted once);
\* with fewer votes late_fee_bps is unchanged and the proposal stays open.
C4_ActiveMajorityCommits ==
  [][ PenaltyStep =>
        IF CountOnes(PenaltyVotesAfter) * 2 > ActiveMemberCount(last'.cid)
        THEN /\ CalledAfter.late_fee_bps = last'.amt
             /\ CalledAfter.proposal_votes_bitmap = 0
        ELSE /\ CalledAfter.late_fee_bps = Called.late_fee_bps
             /\ CalledAfter.proposal_votes_bitmap = PenaltyVotesAfter ]_vars

\* C4 amended: the same with N the circle's member_count, the number of slots
\* ever assigned, whatever the status of their holders.
C4_SlotMajorityCommits ==
  [][ PenaltyStep =>
        IF CountOnes(PenaltyVotesAfter) * 2 > Called.member_count
        THEN /\ CalledAfter.late_fee_bps = last'.amt
             /\ CalledAfter.proposal_votes_bitmap = 0
        ELSE /\ CalledAfter.late_fee_bps = Called.late_fee_bps
             /\ CalledAfter.proposal_votes_bitmap = PenaltyVotesAfter ]_vars

\* The second of three members has just voted and the rate of 500 is in force.
C4_Witness ==
  /\ last.op = "vote_penalty_change" /\ last.ok
  /\ circles[last.cid].member_count = 3
  /\ ActiveMemberCount(last.cid) = 3
  /\ circles[last.cid].late_fee_bps = 500
  /\ circles[last.cid].proposal_votes_bitmap = 0

\* The recovery votes once the caller of a propose_address_change or
\* vote_for_recovery call has been counted, and the identities at stake.
RecoveryStep ==
  Succeeded("propose_address_change") \/ Succeeded("vote_for_recovery")
RecoveryVotesAfter ==
  IF last'.op = "propose_address_change"
  THEN Bit(members[last'.user].index)
  ELSE SetBit(Called.recovery_votes_bitmap, members[last'.user].index)
RecoveryOld ==
  IF last'.op = "propose_address_change" THEN last'.other
  ELSE Called.recovery_old_address
RecoveryNew ==
  IF last'.op = "propose_address_change" THEN last'.to
  ELSE Called.recovery_new_address
RecoveryReached ==
  CountOnes(RecoveryVotesAfter) * 100 > ActiveMemberCount(last'.cid) * 70

\* C5: a recovery proposal executes (the record leaves the old identity for
\* the new one) on exactly the call that brings votes * 100 above A * 70,
\* A being the number of currently Active members; with 4 Active members it
\* has not executed after 2 votes and executes with the 3rd.
C5_RecoveryThreshold ==
  [][ RecoveryStep =>
        /\ RecoveryReached <=>
              (members'[RecoveryOld].status = Absent
                 /\ members'[RecoveryNew].status # Absent)
        /\ ~RecoveryReached => members' = members
        /\ (ActiveMemberCount(last'.cid) = 4
               /\ CountOnes(RecoveryVotesAfter) = 2) => members' = members
        /\ (ActiveMemberCount(last'.cid) = 4
               /\ CountOnes(RecoveryVotesAfter) = 3) => members' # members ]_vars

\* Four Active members, and the third vote has just moved the record.
C5_Witness ==
  /\ last.op = "vote_for_recovery" /\ last.ok
  /\ ActiveMemberCount(last.cid) = 4
  /\ members[last.other].status = Absent
  /\ members[last.to].status = Active

\* C6: when a recovery proposal executes, the Member record is stored under
\* the new identity unchanged (same index), no record is left under the old
\* identity, the slot's entry of the member-address list names the new
\* identity, and the proposal is cleared.
C6_RecoveryExecution ==
  [][ (RecoveryStep /\ RecoveryReached) =>
        /\ members'[RecoveryNew] = members[RecoveryOld]
        /\ members'[RecoveryOld] = NoMember
        /\ \A a \in Addrs \ {RecoveryOld, RecoveryNew} : members'[a] = members[a]
        /\ CalledAfter.member_addresses =
              [i \in DOMAIN Called.member_addresses |->
                 IF i = members[RecoveryOld].index + 1 THEN RecoveryNew
                 ELSE Called.member_addresses[i]]
        /\ CalledAfter.recovery_old_address = NoAddr
        /\ CalledAfter.recovery_new_address = NoAddr
        /\ CalledAfter.recovery_votes_bitmap = 0 ]_vars

\* The holder of slot 1 has just been moved to a new identity.
C6_Witness ==
  /\ last.op \in {"propose_address_change", "vote_for_recovery"} /\ last.ok
  /\ members[last.other] = NoMember
  /\ members[last.to].status = Active
  /\ members[last.to].index = 1
  /\ circles[last.cid].member_addresses[2] = last.to
  /\ circles[last.cid].recovery_old_address = NoAddr

\* C7: propose_address_change fails, leaving circles (so no proposal where
\* there was none) and member records as they were, when old and new are the
\* same identity, the proposer is not Active, the old identity is not an
\* Active member, or the new identity already holds a member record.
C7_RecoveryProposalRejected ==
  [][ ( /\ last'.op = "propose_address_change"
        /\ \/ last'.other = last'.to
           \/ members[last'.user].status # Active
           \/ members[last'.other].status # Active
           \/ members[last'.to].status # Absent )
      => (~last'.ok /\ circles' = circles /\ members' = members) ]_vars

\* An Active member proposed moving an Active member onto an identity that
\* already holds a record, in a circle with no proposal, and was rejected.
C7_Witness ==
  /\ last.op = "propose_address_change" /\ ~last.ok
  /\ HasCircle(last.cid)
  /\ circles[last.cid].recovery_old_address = NoAddr
  /\ last.other # last.to
  /\ members[last.user].status = Active
  /\ members[last.other].status = Active
  /\ members[last.to].status # Absent

\* C8: a duration change proposed at T does not affect a deposit made before
\* T + 72 h; the first successful deposit at or after T + 72 h replaces
\* cycle_duration by the pending value, clears the pending fields and sets the
\* deadline to the deposit time plus the new duration.
C8_DepositAdoptsDuration ==
  [][ Succeeded("deposit") =>
        IF /\ Called.pending_cycle_duration > 0
           /\ now >= Called.duration_change_effective_at
        THEN /\ CalledAfter.cycle_duration = Called.pending_cycle_duration
             /\ CalledAfter.pending_cycle_duration = 0
             /\ CalledAfter.duration_change_effective_at = 0
             /\ CalledAfter.deadline_timestamp = now + Called.pending_cycle_duration
        ELSE /\ CalledAfter.cycle_duration = Called.cycle_duration
             /\ CalledAfter.pending_cycle_duration = Called.pending_cycle_duration
             /\ CalledAfter.duration_change_effective_at =
                   Called.duration_change_effective_at
             /\ CalledAfter.deadline_timestamp = now + Called.cycle_duration ]_vars

\* A deposit has succeeded at T + 72 h and the circle still runs on the old
\* duration with the change pending.
C8_Witness ==
  /\ last.op = "deposit" /\ last.ok
  /\ circles[last.cid].pending_cycle_duration = 2592000
  /\ now = circles[last.cid].duration_change_effective_at
  /\ circles[last.cid].cycle_duration = 604800
  /\ circles[last.cid].deadline_timestamp = now + 604800

\* The late fee before any discount of the deposit just logged.
BaseLateFee ==
  (Called.contribution_amount * members[last'.user].tier_multiplier
     * Called.late_fee_bps) \div 10000

\* C9: a late deposit adds to the reserve the base fee * 9500 / 10000 (floor)
\* when the depositor has referred a member into the circle, and the whole
\* base fee otherwise.
C9_ReferrerLateFeeDiscount ==
  [][ (Succeeded("deposit") /\ now > Called.deadline_timestamp) =>
        groupReserve' - groupReserve =
          IF \E r \in referrals : r[1] = last'.user /\ r[3] = last'.cid
          THEN (BaseLateFee * 9500) \div 10000
          ELSE BaseLateFee ]_vars

\* The only deposit so far was a referrer's late one, and the reserve holds
\* the whole base fee of 1000.
C9_Witness ==
  /\ last.op = "deposit" /\ last.ok
  /\ nDeposits = 1
  /\ \E r \in referrals : r[1] = last.user /\ r[3] = last.cid
  /\ groupReserve = 1000

\* C10: a successful fill_vacancy pays the exiting identity exactly
\* contribution_count * contribution_amount out of the contract's balance
\* (nothing when that is 0), whatever the member's tier and whatever
\* insurance or late fees were paid.
C10_VacancyRefund ==
  [][ Succeeded("fill_vacancy") =>
        /\ last'.amt =
              members[last'.to].contribution_count * Called.contribution_amount
        /\ contractBal' = contractBal - last'.amt ]_vars

\* A tier-2 member who paid 1000 plus insurance and late fees for one
\* contribution has just been refunded 500.
C10_Witness ==
  /\ last.op = "fill_vacancy" /\ last.ok
  /\ last.amt = 500
  /\ members[last.to].tier_multiplier = 2
  /\ members[last.to].contribution_count = 1
  /\ groupReserve > 0
  /\ circles[last.cid].insurance_balance > 0

\* C11: create_circle with max_members > 64 fails and leaves the circle
\* counter and the stored circles as they were; with max_members <= 64 (and
\* an admissible insurance fee) it succeeds, returns the previous circle count
\* plus one, and stores the new circle under that id without touching the
\* others.
C11_CreateBoundary ==
  [][ last'.op = "create_circle" =>
        IF last'.amt > 64
        THEN ~last'.ok /\ circleCount' = circleCount /\ circles' = circles
        ELSE /\ last'.ok
             /\ last'.cid = circleCount + 1
             /\ circleCount' = circleCount + 1
             /\ DOMAIN circles' = 1..(circleCount + 1)
             /\ circles'[circleCount + 1].max_members = last'.amt
             /\ \A cid \in DOMAIN circles : circles'[cid] = circles[cid] ]_vars

\* A circle of capacity 64 is stored under id 1, and a request for 65 has
\* just been rejected.
C11_Witness ==
  /\ last.op = "create_circle" /\ ~last.ok /\ last.amt = 65
  /\ circleCount = 1
  /\ circles[1].max_members = 64

\* C12: a successful join_circle gives the joiner index = member_count before
\* the call, appends the joiner to the member-address list at that position,
\* increments member_count by one, stores an Active record with zero
\* contribution statistics, mints the credential of (circle, index), and
\* leaves both bitmaps, the deadline and every other member record unchanged.
C12_JoinEffects ==
  [][ Succeeded("join_circle") =>
        /\ members'[last'.user].index = Called.member_count
        /\ members'[last'.user].status = Active
        /\ members'[last'.user].contribution_count = 0
        /\ members'[last'.user].total_contributed = 0
        /\ members'[last'.user].last_contribution_time = 0
        /\ CalledAfter.member_count = Called.member_count + 1
        /\ Len(CalledAfter.member_addresses) = Len(Called.member_addresses) + 1
        /\ CalledAfter.member_addresses[Called.member_count + 1] = last'.user
        /\ \A i \in DOMAIN Called.member_addresses :
              CalledAfter.member_addresses[i] = Called.member_addresses[i]
        /\ nft' = nft \cup {<<last'.cid, Called.member_count, last'.user>>}
        /\ CalledAfter.contribution_bitmap = Called.contribution_bitmap
        /\ CalledAfter.payout_bitmap = Called.payout_bitmap
        /\ CalledAfter.deadline_timestamp = Called.deadline_timestamp
        /\ \A a \in Addrs \ {last'.user} : members'[a] = members[a] ]_vars

\* The second member has just joined a circle whose first member had already
\* contributed.
C12_Witness ==
  /\ last.op = "join_circle" /\ last.ok
  /\ members[last.user].index = 1
  /\ circles[last.cid].member_count = 2
  /\ circles[last.cid].member_addresses[2] = last.user
  /\ circles[last.cid].contribution_bitmap = 1
  /\ <<last.cid, 1, last.user>> \in nft

\* C13: membership is scoped per circle; in particular a deposit into a
\* circle succeeds only for an identity whose record that circle created, so
\* a deposit by a member of another circle sets no bit in this one.
C13_DepositScoped ==
  [][ Succeeded("deposit") => home[last'.user] = last'.cid ]_vars

\* A member of one circle has paid into another circle, where the bit of its
\* index now marks that circle's own first member as having contributed.
C13_Witness ==
  /\ last.op = "deposit" /\ last.ok
  /\ home[last.user] # last.cid
  /\ circles[last.cid].member_count = 1
  /\ circles[last.cid].member_addresses[1] # last.user
  /\ members[circles[last.cid].member_addresses[1]].contribution_count = 0
  /\ circles[last.cid].contribution_bitmap = 1

\* The status of identity a is left alone or moves along one of the arrows
\* of the member lifecycle; a record appears as an Active one (join,
\* fill_vacancy, or an Active record arriving by recovery) and an Active
\* record may leave its identity by recovery.
StatusStep(a) ==
  /\ members[a].status = Ejected => members'[a] = members[a]
  /\ members'[a].status # members[a].status =>
        \/ /\ members[a].status = Active
           /\ members'[a].status = AwaitingReplacement
           /\ Succeeded("request_exit") /\ last'.user = a
        \/ /\ members[a].status = AwaitingReplacement
           /\ members'[a].status = Ejected
           /\ Succeeded("fill_vacancy") /\ last'.to = a
        \/ /\ members[a].status = Active
           /\ members'[a].status = Ejected
           /\ Succeeded("eject_member") /\ last'.to = a
        \/ /\ members[a].status = Absent
           /\ members'[a].status = Active
           /\ \/ Succeeded("join_circle") /\ last'.user = a
              \/ Succeeded("fill_vacancy") /\ last'.user = a
              \/ RecoveryStep /\ last'.to = a
        \/ /\ members[a].status = Active
           /\ members'[a].status = Absent
           /\ RecoveryStep /\ last'.other = a

\* The call just made executed a recovery proposal.
RecoveryExecuted == RecoveryStep /\ last'.amt = 1

\* C14: the status of a member record changes only from Active to
\* AwaitingReplacement (the member's request_exit), from AwaitingReplacement
\* to Ejected (a fill_vacancy naming it) or from Active to Ejected (an eject
\* naming it), and an Ejected record is never changed again, whatever is
\* called afterwards: join, fill_vacancy, or a recovery naming the identity.
C14_StatusTransitions == [][\A a \in Addrs : StatusStep(a)]_vars

\* Every step that breaks the lifecycle is the execution of a recovery
\* proposal: the operations of lib.rs keep to it.
StatusStepsOutsideRecovery ==
  [][RecoveryExecuted \/ \A a \in Addrs : StatusStep(a)]_vars

\* A recovery proposal made while its old identity was Active has just been
\* executed after that identity was ejected: the Ejected record has left it.
C14_Witness ==
  /\ last.op = "vote_for_recovery" /\ last.ok /\ last.amt = 1
  /\ members[last.other].status = Absent
  /\ members[last.to].status = Ejected

C16_InactiveRejected ==
  [][ ( /\ last'.op \in {"deposit", "propose_penalty_change", "vote_penalty_change"}
        /\ members[last'.user].status \in {AwaitingReplacement, Ejected} )
      => /\ ~last'.ok
         /\ store' = store ]_vars

\* An Ejected member's vote on an open penalty proposal has just been
\* rejected, after a deposit was accepted; another member is leaving.
C16_Witness ==
  /\ last.op = "vote_penalty_change" /\ ~last.ok
  /\ members[last.user].status = Ejected
  /\ circles[1].proposed_late_fee_bps = 200
  /\ circles[1].contribution_bitmap # 0
  /\ \E a \in Users : members[a].status = AwaitingReplacement

\* C17: insurance pays at most once per round.  A trigger_insurance_coverage
\* call succeeds only while the circle's insurance-used flag is clear, and
\* sets it; the flag is cleared again only by the finalization of that
\* circle's round; while it is set, every call fails and changes nothing, the
\* creator's call with the insurance-already-used error.
C17_InsuranceOncePerRound ==
  [][ /\ Succeeded("trigger_insurance_coverage") =>
            ~Called.is_insurance_used /\ CalledAfter.is_insurance_used
      /\ \A cid \in DOMAIN circles :
            circles[cid].is_insurance_used /\ ~circles'[cid].is_insurance_used
              => Succeeded("finalize_round") /\ last'.cid = cid
      /\ ( /\ last'.op = "trigger_insurance_coverage"
            /\ last'.cid \in DOMAIN circles
            /\ Called.is_insurance_used )
          => /\ ~last'.ok
             /\ store' = store
             /\ last'.user = Called.creator => last'.err = "insurance-used" ]_vars

\* Insurance has paid once this round, and the creator's call for another
\* Active member who has not contributed, with enough insurance balance left,
\* has just been rejected.
C17_Witness ==
  /\ last.op = "trigger_insurance_coverage" /\ ~last.ok
  /\ last.err = "insurance-used"
  /\ circles[1].is_insurance_used
  /\ circles[1].insurance_balance >= circles[1].contribution_amount
  /\ members[last.to].status = Active
  /\ ~HasBit(circles[1].contribution_bitmap, members[last.to].index)

\* C18: trigger_insurance_coverage for a member of tier t succeeds only if
\* the insurance balance covers contribution_amount * t; it then takes
\* exactly that amount off the balance and records it as the member's
\* contribution of the round.  It fails and changes nothing if the member is
\* not Active, has already contributed this round, or the balance is short
\* of the amount owed.
C18_InsuranceCoversOwed ==
  [][ ( /\ last'.op = "trigger_insurance_coverage"
        /\ last'.cid \in DOMAIN circles
        /\ HasMember(last'.to) )
      => LET m == members[last'.to]
             owed == Owed(Called, m)
         IN /\ last'.ok =>
                 /\ Called.insurance_balance >= owed
                 /\ CalledAfter.insurance_balance = Called.insurance_balance - owed
                 /\ <<last'.cid, m.index, owed>> \in roundContrib'
            /\ ( \/ m.status # Active
                 \/ HasBit(Called.contribution_bitmap, m.index)
                 \/ Called.insurance_balance < owed )
               => ~last'.ok /\ store' = store ]_vars

\* Insurance has just covered a member of tier 2 in a circle whose balance
\* was below twice the contribution: only one contribution was taken off the
\* balance, and no contribution of the round is recorded under the member's
\* index.
C18_Witness ==
  /\ last.op = "trigger_insurance_coverage" /\ last.ok
  /\ members[last.to].tier_multiplier = 2
  /\ last.amt = circles[1].contribution_amount
  /\ circles[1].insurance_balance = 0
  /\ \A t \in roundContrib : ~(t[1] = 1 /\ t[2] = members[last.to].index)

\* C19: a successful deposit by a member of tier t pulls exactly
\* owed + floor(owed * insurance_fee_bps / 10000) from the depositor, with
\* owed = contribution_amount * t, and adds exactly that insurance fee to the
\* insurance balance, late or not: the late fee is no part of the transfer.
C19_DepositTransfer ==
  [][ Succeeded("deposit") =>
        LET m == members[last'.user]
            owed == Called.contribution_amount * m.tier_multiplier
            fee == (owed * Called.insurance_fee_bps) \div 10000
        IN /\ last'.amt = owed + fee
           /\ contractBal' = contractBal + owed + fee
           /\ CalledAfter.insurance_balance = Called.insurance_balance + fee ]_vars

\* The first deposit, made after the deadline by a member of tier 2: 2000 and
\* an insurance fee of 66 were pulled, while the late fee of 20 went to the
\* reserve only.
C19_Witness ==
  /\ last.op = "deposit" /\ last.ok /\ nDeposits = 1
  /\ members[last.user].tier_multiplier = 2
  /\ last.amt = 2066 /\ contractBal = 2066
  /\ circles[1].insurance_balance = 66
  /\ groupReserve = 20

\* C20: a deposit made at a time <= deadline_timestamp leaves the reserve as
\* it was; one made after the deadline adds floor(owed * late_fee_bps / 10000)
\* to it (10 for owed 1000 at 100 bps).  Either way the member's bit is set and
\* the member's contribution_count grows by one.
C20_LateFeeToReserve ==
  [][ Succeeded("deposit") =>
        LET m == members[last'.user]
            owed == Called.contribution_amount * m.tier_multiplier
        IN /\ now <= Called.deadline_timestamp => groupReserve' = groupReserve
           /\ now > Called.deadline_timestamp =>
                 groupReserve' = groupReserve + (owed * Called.late_fee_bps) \div 10000
           /\ owed = 1000 /\ Called.late_fee_bps = 100 /\ now > Called.deadline_timestamp
                 => groupReserve' = groupReserve + 10
           /\ HasBit(CalledAfter.contribution_bitmap, m.index)
           /\ members'[last'.user].contribution_count = m.contribution_count + 1 ]_vars

\* A deposit made exactly at the deadline left the reserve empty, and the
\* next one, made a second after the new deadline at the default rate by a
\* member owing 1000, has just added 10 to it.
C20_Witness ==
  /\ last.op = "deposit" /\ last.ok /\ nDeposits = 2
  /\ members[last.user].tier_multiplier = 1
  /\ circles[1].late_fee_bps = 100
  /\ now = 604800 + 604801
  /\ groupReserve = 10

\* C21: the late-fee reserve is kept per circle: a deposit into circle A,
\* late or not, leaves the reserve balance of every other circle B as it was.
C21_ReservePerCircle ==
  [][ Succeeded("deposit") =>
        \A cid \in DOMAIN circles :
          cid # last'.cid => ReserveOf(cid)' = ReserveOf(cid) ]_vars

\* With two circles stored, a member of circle 1 has just made the first
\* deposit, late, into circle 1: its late fee of 10 is in the reserve balance
\* that circle 2 reads.
C21_Witness ==
  /\ last.op = "deposit" /\ last.ok /\ nDeposits = 1
  /\ last.cid = 1 /\ home[last.user] = 1
  /\ circleCount = 2
  /\ ReserveOf(2) = 10

\* C22: a round is finalized only when every member's bit is set
\* (contribution_bitmap = (1 << member_count) - 1) and the round is not
\* finalized already; a finalization attempted with a bit missing, or a second
\* one while the round is still finalized, fails and changes nothing.
C22_FinalizeGuard ==
  [][ ( last'.op = "finalize_round" /\ last'.cid \in DOMAIN circles ) =>
        /\ last'.ok =>
              /\ Called.contribution_bitmap = 2 ^ Called.member_count - 1
              /\ ~Called.is_round_finalized
        /\ ( \/ Called.contribution_bitmap # 2 ^ Called.member_count - 1
             \/ Called.is_round_finalized )
           => ~last'.ok /\ store' = store ]_vars

\* The round of a circle of three has been finalized, one member has paid
\* again since, and a second finalization has just been rejected.
C22_Witness ==
  /\ last.op = "finalize_round" /\ ~last.ok /\ last.err = "already-finalized"
  /\ circles[1].is_round_finalized
  /\ circles[1].member_count = 3
  /\ circles[1].payout_bitmap = 1
  /\ circles[1].contribution_bitmap # 0

\* C23: a successful finalization makes the member listed at
\* current_recipient_index the pot recipient, schedules the claim 24 hours
\* after the call, marks the round finalized, resets contribution_bitmap to 0,
\* sets the recipient's bit in payout_bitmap, moves current_recipient_index to
\* (old index + 1) mod max_members and clears the insurance-used flag.
C23_FinalizeEffects ==
  [][ Succeeded("finalize_round") =>
        LET cri == Called.current_recipient_index
        IN /\ CalledAfter.current_pot_recipient = Called.member_addresses[cri + 1]
           /\ <<last'.cid, now + 86400>> \in scheduled'
           /\ \A t \in scheduled' : t[1] = last'.cid => t[2] = now + 86400
           /\ CalledAfter.is_round_finalized
           /\ CalledAfter.contribution_bitmap = 0
           /\ CalledAfter.payout_bitmap = SetBit(Called.payout_bitmap, cri)
           /\ CalledAfter.current_recipient_index = (cri + 1) % Called.max_members
           /\ ~CalledAfter.is_insurance_used ]_vars

\* A circle of two slots with a single member, covered by insurance an hour
\* after creation, has just been finalized: that member is the recipient, the
\* claim is due a day later, and the pointer stands at 1.
C23_Witness ==
  /\ last.op = "finalize_round" /\ last.ok
  /\ LET c == circles[last.cid]
     IN /\ c.max_members = 2 /\ c.member_count = 1
        /\ c.current_pot_recipient = c.member_addresses[1]
        /\ c.payout_bitmap = 1 /\ c.contribution_bitmap = 0
        /\ c.current_recipient_index = 1
        /\ ~c.is_insurance_used
        /\ <<last.cid, 3600 + 86400>> \in scheduled

\* C25: the pot of a finalized round is claimed only by
\* current_pot_recipient and only at or after the scheduled payout time; a
\* claim by anyone else, or before that time, fails and leaves the round
\* finalized; a successful claim clears the round-finalized flag and the
\* scheduled time, so a claim with no finalized round fails and the pot of
\* one round is claimed at most once.
C25_ClaimGuard ==
  [][ ( last'.op = "claim_pot" /\ last'.cid \in DOMAIN circles ) =>
        LET due == \E t \in scheduled : t[1] = last'.cid /\ now >= t[2]
        IN /\ last'.ok =>
                /\ Called.is_round_finalized
                /\ last'.user = Called.current_pot_recipient
                /\ due
                /\ ~CalledAfter.is_round_finalized
                /\ \A t \in scheduled' : t[1] # last'.cid
           /\ ( \/ ~Called.is_round_finalized
                \/ last'.user # Called.current_pot_recipient
                \/ ~due )
              => /\ ~last'.ok
                 /\ store' = store ]_vars

\* The recipient has just claimed the pot exactly 24 hours after the
\* finalization: the round is open again and no payout time is scheduled.
C25_Witness ==
  /\ last.op = "claim_pot" /\ last.ok
  /\ now = 86400
  /\ last.user = circles[1].current_pot_recipient
  /\ ~circles[1].is_round_finalized
  /\ scheduled = {}
  /\ circles[1].payout_bitmap = 1

\* C24: the payout rotates.  Each finalization designates one recipient, the
\* member listed at the rotation pointer; the pointer visits the indices 0,
\* 1, 2, ... in order, so every index below the designated one has been
\* designated before, and an index is designated again only once every member
\* of the circle has been designated (also while member_count < max_members).
C24_PayoutRotation ==
  [][ Succeeded("finalize_round") =>
        LET cri == Called.current_recipient_index
        IN /\ cri < Called.member_count
           /\ CalledAfter.current_pot_recipient = Called.member_addresses[cri + 1]
           /\ last'.to = CalledAfter.current_pot_recipient
           /\ \A i \in 0..(cri - 1) : HasBit(Called.payout_bitmap, i)
           /\ HasBit(Called.payout_bitmap, cri) =>
                 \A i \in 0..(Called.member_count - 1) : HasBit(Called.payout_bitmap, i)
           /\ CalledAfter.payout_bitmap = SetBit(Called.payout_bitmap, cri) ]_vars

\* The third round of a full circle of two has just been finalized: after the
\* members at indices 0 and 1, the member at index 0 is the recipient again.
C24_Witness ==
  /\ last.op = "finalize_round" /\ last.ok
  /\ circles[1].max_members = 2 /\ circles[1].member_count = 2
  /\ circles[1].payout_bitmap = 3
  /\ circles[1].current_recipient_index = 1
  /\ last.to = circles[1].member_addresses[1]
  /\ now = 2 * 86400

\* The sum of the contributions recorded for the round of circle cid that
\* was finalized last.
FinalizedPotOf(cid) == (CHOOSE t \in finalizedPot : t[1] = cid)[2]

\* C26: a successful claim transfers to the recipient exactly the sum, over
\* all member indices, of the contributions recorded during the round that
\* was finalized.
C26_ClaimPaysRecordedSum ==
  [][ Succeeded("claim_pot") =>
        /\ last'.amt = FinalizedPotOf(last'.cid)
        /\ contractBal' = contractBal - FinalizedPotOf(last'.cid) ]_vars

\* The only member of a circle, of tier 2, deposited 1000, the round was
\* finalized with 1000 recorded, and the claim has just paid 500.
C26_Witness ==
  /\ last.op = "claim_pot" /\ last.ok /\ nDeposits = 1
  /\ circles[1].member_count = 1
  /\ members[last.user].tier_multiplier = 2
  /\ finalizedPot = {<<1, 1000>>}
  /\ last.amt = 500

\* C27: propose_duration_change succeeds only for the circle's creator or the
\* protocol admin and only with new_duration > 0; it then sets
\* pending_cycle_duration = new_duration and duration_change_effective_at =
\* now + 72 hours and leaves cycle_duration, deadline_timestamp and the rest
\* of the circle as they were; otherwise it fails and changes nothing.
C27_ProposeDuration ==
  [][ ( last'.op = "propose_duration_change" /\ last'.cid \in DOMAIN circles ) =>
        IF last'.user \in {Called.creator, Admin} /\ last'.amt > 0
        THEN /\ last'.ok
             /\ CalledAfter = [Called EXCEPT
                   !.pending_cycle_duration = last'.amt,
                   !.duration_change_effective_at = now + 72 * 3600]
             /\ CalledAfter.cycle_duration = Called.cycle_duration
             /\ CalledAfter.deadline_timestamp = Called.deadline_timestamp
             /\ members' = members
        ELSE /\ ~last'.ok
             /\ store' = store ]_vars

\* An hour after creation, and after a deposit that moved the deadline, the
\* admin has just announced a duration of 30 days: it takes effect 72 hours
\* later, and the running cycle keeps its duration and deadline.
C27_Witness ==
  /\ last.op = "propose_duration_change" /\ last.ok /\ last.user = Admin
  /\ now = 3600 /\ nDeposits = 1
  /\ circles[1].pending_cycle_duration = 2592000
  /\ circles[1].duration_change_effective_at = 3600 + 259200
  /\ circles[1].cycle_duration = 604800
  /\ circles[1].deadline_timestamp = 3600 + 604800

\* C28: prepare_payout_liquidity called by the creator or the admin does
\* nothing when yield_deposited = 0, and otherwise withdraws exactly
\* yield_deposited from the lending pool and sets yield_deposited to 0; in
\* both cases contribution_bitmap, payout_bitmap, the insurance balance and
\* every member record stay as they were.  Called by anyone else it fails.
C28_PreparePayoutLiquidity ==
  [][ ( last'.op = "prepare_payout_liquidity" /\ last'.cid \in DOMAIN circles ) =>
        IF last'.user \in {Called.creator, Admin}
        THEN /\ Called.yield_deposited = 0 => last'.ok /\ store' = store
             /\ last'.ok =>
                  /\ poolBal' = poolBal - Called.yield_deposited
                  /\ contractBal' = contractBal + Called.yield_deposited
                  /\ CalledAfter.yield_deposited = 0
                  /\ CalledAfter.contribution_bitmap = Called.contribution_bitmap
                  /\ CalledAfter.payout_bitmap = Called.payout_bitmap
                  /\ CalledAfter.insurance_balance = Called.insurance_balance
                  /\ members' = members
        ELSE ~last'.ok /\ store' = store ]_vars

\* The creator has just recalled 500 from the lending pool: the bit of the
\* member at index 1, who has not deposited, is set in contribution_bitmap,
\* and the deadline has moved to a full cycle from now.
C28_Witness ==
  /\ last.op = "prepare_payout_liquidity" /\ last.ok /\ last.amt = 500
  /\ nDeposits = 1
  /\ circles[1].yield_deposited = 0 /\ poolBal = 0
  /\ HasBit(circles[1].contribution_bitmap, 1)
  /\ \E a \in Users : /\ members[a].status = Active /\ members[a].index = 1
                       /\ members[a].contribution_count = 0
  /\ now > 0 /\ circles[1].deadline_timestamp = now + circles[1].cycle_duration

\* C29: after a successful deposit made at a time t with t + 3600 >= the
\* deadline in force before the call, yield_deposited is 0 and the whole
\* amount deployed before has been withdrawn from the lending pool; a
\* successful deposit made earlier than deadline - 3600 leaves yield_deposited
\* as it was.
C29_DepositRecallsYield ==
  [][ Succeeded("deposit") =>
        IF now + 3600 >= Called.deadline_timestamp
        THEN /\ CalledAfter.yield_deposited = 0
             /\ poolBal' = poolBal - Called.yield_deposited
        ELSE /\ CalledAfter.yield_deposited = Called.yield_deposited
             /\ poolBal' = poolBal ]_vars

\* With 500 deployed, a deposit made exactly one hour before the deadline has
\* just recalled it: nothing is left in the lending pool.
C29_Witness ==
  /\ last.op = "deposit" /\ last.ok
  /\ nYield = 1
  /\ now = 604800 - 3600
  /\ circles[1].yield_deposited = 0
  /\ poolBal = 0
  /\ contractBal = 1000

\* A pending-exit marker is stored for (circle, identity) exactly when the
\* identity's member record of that circle is AwaitingReplacement.
PendingExitMatchesStatus ==
  \A cid \in DOMAIN circles, a \in Addrs :
    <<cid, a>> \in pendingExit
      <=> (members[a].status = AwaitingReplacement /\ home[a] = cid)

\* C30: request_exit by an Active member makes it AwaitingReplacement and
\* records a pending-exit marker; request_exit by a member that is not Active
\* fails; and in every reachable state a pending-exit marker exists for
\* (circle, identity) if and only if that identity's member record is
\* AwaitingReplacement.
C30_PendingExit ==
  [][ /\ ( last'.op = "request_exit" /\ last'.cid \in DOMAIN circles ) =>
            IF members[last'.user].status = Active
            THEN /\ last'.ok
                 /\ members' = [members EXCEPT
                                  ![last'.user].status = AwaitingReplacement]
                 /\ pendingExit' = pendingExit \cup {<<last'.cid, last'.user>>}
            ELSE ~last'.ok /\ store' = store
      /\ PendingExitMatchesStatus' ]_vars

\* A member of circle 1 has just requested to exit circle 2: the marker is
\* stored for circle 2, where the member holds no slot, and none for circle 1,
\* whose member is now AwaitingReplacement.
C30_Witness ==
  /\ last.op = "request_exit" /\ last.ok /\ last.cid = 2
  /\ home[last.user] = 1
  /\ members[last.user].status = AwaitingReplacement
  /\ pendingExit = {<<2, last.user>>}

\* C31: a successful fill_vacancy stores for the new identity a record with
\* the exiting member's index, status Active and no contributions, makes the
\* exiting member Ejected, removes the pending-exit marker and leaves the
\* circle (its member_count included) as it was; the call fails when there is
\* no pending-exit marker, when the exiting member is not AwaitingReplacement
\* or when the new identity already has a member record, and a failed call
\* changes nothing.
C31_FillVacancy ==
  [][ ( last'.op = "fill_vacancy" /\ last'.cid \in DOMAIN circles ) =>
        LET new == last'.user
            x == last'.to
            cid == last'.cid
        IN /\ last'.ok =>
                /\ members'[new].index = members[x].index
                /\ members'[new].status = Active
                /\ members'[new].contribution_count = 0
                /\ members'[new].total_contributed = 0
                /\ members'[x] = [members[x] EXCEPT !.status = Ejected]
                /\ pendingExit' = pendingExit \ {<<cid, x>>}
                /\ CalledAfter.member_count = Called.member_count
           /\ ( \/ <<cid, x>> \notin pendingExit
                \/ members[x].status # AwaitingReplacement
                \/ HasMember(new) ) => ~last'.ok
           /\ ~last'.ok => store' = store ]_vars

\* The holder of slot 1 of a full circle has just been replaced: the new
\* identity is Active at index 1, the former holder is Ejected, no marker is
\* left and the circle still counts two members.
C31_Witness ==
  /\ last.op = "fill_vacancy" /\ last.ok
  /\ members[last.user] = NewMember(1, 1)
  /\ members[last.to].status = Ejected /\ members[last.to].index = 1
  /\ home[last.to] = last.cid
  /\ pendingExit = {}
  /\ circles[last.cid].member_count = 2

\* The identities whose record holds a slot of circle cid.
SlotHolders(cid) ==
  {a \in Addrs : home[a] = cid /\ members[a].status \in {Active, AwaitingReplacement}}

\* No two records of one circle that are not Ejected have the same index.
IndicesDistinct ==
  \A a \in Addrs, b \in Addrs :
    ( /\ a # b
      /\ members[a].status \in {Active, AwaitingReplacement}
      /\ members[b].status \in {Active, AwaitingReplacement}
      /\ home[a] = home[b] ) => members[a].index # members[b].index

\* C32: no two member records of one circle that are not Ejected share an
\* index: a successful join_circle gives the joiner an index that no Active or
\* AwaitingReplacement member of the circle holds, and a record is created with
\* the index of an existing record of its circle only by fill_vacancy, in the
\* call that makes the previous holder Ejected.
C32_IndexUnique ==
  [][ /\ IndicesDistinct'
      /\ Succeeded("join_circle") =>
            \A a \in SlotHolders(last'.cid) :
              members[a].index # members'[last'.user].index
      /\ \A u \in Addrs, b \in Addrs :
            ( /\ ~HasMember(u) /\ members'[u].status # Absent
              /\ b # u /\ HasMember(b) /\ home[b] = home'[u]
              /\ members[b].index = members'[u].index )
            => /\ Succeeded("fill_vacancy")
               /\ members[b].status # Ejected => members'[b].status = Ejected
    ]_vars

\* Circle 2 has an Active member at index 0; the member at index 0 of circle 1
\* asked to exit circle 2 and has just been replaced there, so two Active
\* records of circle 2 have index 0.
C32_Witness ==
  /\ last.op = "fill_vacancy" /\ last.ok /\ last.cid = 2
  /\ \E b \in Addrs :
        /\ b # last.user /\ home[b] = 2 /\ home[last.user] = 2
        /\ members[b].status = Active /\ members[last.user].status = Active
        /\ members[b].index = 0 /\ members[last.user].index = 0

SnapshotOf(bitmap, active) ==
  LET ones == CountOnes(bitmap)
      contributed == IF ones < active THEN ones ELSE active
  IN [ missed_payments |-> active - contributed,
       active_members |-> active,
       trust_score |-> IF active = 0 THEN 0 ELSE (100 * contributed) \div active ]

\* C34: each deposit emits a health snapshot in which active_members is the
\* number of members of the circle that are Active, contributed is
\* min(popcount(contribution_bitmap), active_members), missed_payments is
\* active_members - contributed and trust_score is
\* floor(100 * contributed / active_members), so that 0 <= trust_score <= 100.
C34_HealthSnapshot ==
  [][ Succeeded("deposit") =>
        /\ last'.ev = SnapshotOf(CalledAfter.contribution_bitmap,
              Cardinality({a \in Addrs : /\ members'[a].status = Active
                                         /\ home'[a] = last'.cid}))
        /\ last'.ev.trust_score \in 0..100 ]_vars

\* The snapshot every deposit does emit: the same figures computed from
\* member_count, the number of slots handed out so far.
HealthSnapshotOverSlots ==
  [][ Succeeded("deposit") =>
        /\ last'.ev = SnapshotOf(CalledAfter.contribution_bitmap,
                                 CalledAfter.member_count)
        /\ last'.ev.trust_score \in 0..100 ]_vars

\* The only Active member of a circle whose other member was ejected before
\* contributing has just deposited: the snapshot reports two active members,
\* one missed payment and a trust score of 50.
C34_Witness ==
  /\ last.op = "deposit" /\ last.ok
  /\ ActiveMemberCount(last.cid) = 1
  /\ \E a \in Users : home[a] = last.cid /\ members[a].status = Ejected
                        /\ members[a].contribution_count = 0
  /\ circles[last.cid].contribution_bitmap = Bit(members[last.user].index)
  /\ last.ev = [missed_payments |-> 1, active_members |-> 2, trust_score |-> 50]

\* C35: a new penalty proposal replaces the pending one and discards its
\* votes.  After a successful propose_penalty_change the vote bitmap holds no
\* bit but the proposer's (and none once the proposal has committed on the
\* spot), whatever votes the pending proposal had collected, and the only
\* proposal the circle can have is the new one.
C35_ProposalReplaces ==
  [][ Succeeded("propose_penalty_change") =>
        LET own == Bit(members[last'.user].index)
            committed == HasMajority(own, Called.member_count)
        IN /\ CalledAfter.proposal_votes_bitmap = (IF committed THEN 0 ELSE own)
           /\ CalledAfter.proposed_late_fee_bps =
                 (IF committed THEN 0 ELSE last'.amt)
           /\ CalledAfter.late_fee_bps =
                 (IF committed THEN last'.amt ELSE Called.late_fee_bps) ]_vars

\* The third of three members has just proposed 500 in a circle whose rate is
\* still the default: the proposal is pending with the proposer's vote alone.
C35_Witness ==
  /\ last.op = "propose_penalty_change" /\ last.ok /\ last.amt = 500
  /\ circles[1].member_count = 3
  /\ members[last.user].index = 2
  /\ circles[1].proposed_late_fee_bps = 500
  /\ circles[1].proposal_votes_bitmap = Bit(2)
  /\ circles[1].late_fee_bps = DEFAULT_LATE_FEE_BPS

\* late_fee_bps changes only in a propose or vote call that commits, to the
\* rate proposed; a commit clears the proposal and its votes; a vote without
\* an active proposal is rejected and changes nothing; the rate never exceeds
\* 100%.
PenaltyRateGoverned ==
  /\ \A cid \in DOMAIN circles :
        circles'[cid].late_fee_bps # circles[cid].late_fee_bps =>
          /\ PenaltyStep /\ last'.cid = cid
          /\ circles'[cid].late_fee_bps = last'.amt
  /\ ( PenaltyStep /\ HasMajority(PenaltyVotesAfter, Called.member_count) ) =>
        /\ CalledAfter.late_fee_bps = last'.amt
        /\ CalledAfter.proposed_late_fee_bps = 0
        /\ CalledAfter.proposal_votes_bitmap = 0
  /\ ( /\ last'.op = "vote_penalty_change" /\ last'.cid \in DOMAIN circles
       /\ Called.proposed_late_fee_bps = 0 ) => ~last'.ok /\ store' = store
  /\ \A cid \in DOMAIN circles' : circles'[cid].late_fee_bps <= BPS_DENOMINATOR

\* A proposal is pending in a circle from the propose call that stores the
\* proposer's vote until the call that commits it and clears the votes.
PenaltyProposalPending(c) == c.proposal_votes_bitmap # 0

\* C36: late_fee_bps changes only when a penalty proposal commits and then
\* equals the proposed rate, so it never exceeds 10000; a commit clears the
\* proposal and its vote bitmap; vote_penalty_change without an active proposal
\* fails and changes nothing; and a proposal of at most 10000 made by an
\* Active member can be voted on until it commits: the vote of an Active member
\* of the circle succeeds while the proposal is pending.
C36_PenaltyGovernance ==
  [][ /\ PenaltyRateGoverned
      /\ ( /\ last'.op = "vote_penalty_change" /\ last'.cid \in DOMAIN circles
           /\ members[last'.user].status = Active /\ home[last'.user] = last'.cid
           /\ PenaltyProposalPending(Called) ) => last'.ok ]_vars

\* The statements of C36 that hold on every step.
PenaltyRateGovernedAlways == [][PenaltyRateGoverned]_vars

\* One of three members proposed the rate 0, which the proposer's vote alone
\* does not commit; another Active member's vote has just been rejected for
\* want of an active proposal.
C36_Witness ==
  /\ last.op = "vote_penalty_change" /\ ~last.ok /\ last.err = "no-proposal"
  /\ members[last.user].status = Active /\ home[last.user] = 1
  /\ circles[1].member_count = 3
  /\ circles[1].proposed_late_fee_bps = 0
  /\ circles[1].proposal_votes_bitmap # 0
  /\ ~HasBit(circles[1].proposal_votes_bitmap, members[last.user].index)
  /\ circles[1].late_fee_bps = DEFAULT_LATE_FEE_BPS

\* C37: while a round is finalized and its pot not yet claimed, deposit and
\* trigger_insurance_coverage on that circle fail, so that no contribution bit
\* of the next round is set before the claim clears the finalized flag.
C37_ClosedWhileFinalized ==
  [][ /\ ( /\ last'.op \in {"deposit", "trigger_insurance_coverage"}
           /\ last' # last
           /\ last'.cid \in DOMAIN circles
           /\ Called.is_round_finalized ) => ~last'.ok
      /\ \A cid \in DOMAIN circles' :
            circles'[cid].is_round_finalized =>
              circles'[cid].contribution_bitmap = 0 ]_vars

\* The round of a circle of two members was finalized and its payout is
\* scheduled but not claimed; a member's deposit has just been accepted and
\* its bit is set for the next round.
C37_Witness ==
  /\ last.op = "deposit" /\ last.ok
  /\ circles[last.cid].member_count = 2
  /\ circles[last.cid].is_round_finalized
  /\ \E t \in scheduled : t[1] = last.cid
  /\ circles[last.cid].contribution_bitmap = Bit(members[last.user].index)
  /\ home[last.user] = last.cid

\* The identities holding slot i of circle cid: those with a record of that
\* circle and index that is not Ejected.
HoldersOf(cid, i) ==
  {a \in Addrs : /\ home[a] = cid /\ members[a].index = i
                 /\ members[a].status \in {Active, AwaitingReplacement}}

\* Every entry of a circle's member-address list is the holder of its slot, or
\* an identity whose record has that index where the slot has no holder.
AddressListCurrent ==
  \A cid \in DOMAIN circles :
    /\ Len(circles[cid].member_addresses) >= circles[cid].member_count
    /\ \A i \in 0..(circles[cid].member_count - 1) :
          LET entry == circles[cid].member_addresses[i + 1]
          IN IF HoldersOf(cid, i) # {}
             THEN entry \in HoldersOf(cid, i)
             ELSE home[entry] = cid /\ members[entry].index = i

\* C38: for every index below member_count the entry of the member-address
\* list is the current holder of that slot; after fill_vacancy the entry at the
\* inherited index is the replacement, and a finalization never designates as
\* pot recipient an identity whose slot another identity holds.
C38_AddressListCurrent ==
  [][ /\ AddressListCurrent'
      /\ Succeeded("fill_vacancy") =>
            CalledAfter.member_addresses[members'[last'.user].index + 1] = last'.user
      /\ Succeeded("finalize_round") =>
            /\ CalledAfter.current_pot_recipient = last'.to
            /\ HoldersOf(last'.cid, Called.current_recipient_index) \in {{}, {last'.to}}
    ]_vars

\* The round of a circle whose slot 0 passed from an exited member to a
\* replacement has just been finalized: the designated recipient is the
\* Ejected member, and the replacement, who paid the contribution of slot 0,
\* is Active.
C38_Witness ==
  /\ last.op = "finalize_round" /\ last.ok
  /\ circles[last.cid].current_pot_recipient = last.to
  /\ members[last.to].status = Ejected /\ members[last.to].index = 0
  /\ \E a \in Users : /\ a # last.to /\ home[a] = last.cid
                        /\ members[a].status = Active /\ members[a].index = 0
                        /\ members[a].contribution_count = 1

\* The finalization of circle cid's round would pass every check of
\* execute_finalize_round and get_member_address_by_index.
FinalizeWouldSucceed(cid) ==
  /\ ~circles[cid].is_round_finalized
  /\ RoundComplete(circles[cid])
  /\ circles[cid].current_recipient_index < circles[cid].member_count

\* C39: whenever a circle with at least one member has a complete round that is
\* not yet finalized, its finalization succeeds: current_recipient_index is
\* below member_count, in every round and also while member_count is below
\* max_members.
C39_FinalizeNeverStuck ==
  \A cid \in DOMAIN circles :
    ( /\ circles[cid].member_count >= 1
      /\ RoundComplete(circles[cid])
      /\ ~circles[cid].is_round_finalized ) => FinalizeWouldSucceed(cid)

\* A circle of two slots with a single member, whose first round was finalized
\* and paid out: the member has contributed again, the round is complete and
\* not finalized, and the recipient index 1 denotes no member.
C39_Witness ==
  /\ 1 \in DOMAIN circles
  /\ circles[1].max_members = 2 /\ circles[1].member_count = 1
  /\ circles[1].payout_bitmap = 1
  /\ last.op = "deposit" /\ last.ok /\ last.cid = 1
  /\ RoundComplete(circles[1]) /\ ~circles[1].is_round_finalized
  /\ circles[1].current_recipient_index = 1

\* The sum of the amounts of a set of CurrentRoundContribution entries.
RECURSIVE RecordedTotal(_)
RecordedTotal(rc) ==
  IF rc = {} THEN 0
  ELSE LET t == CHOOSE x \in rc : TRUE
       IN t[3] + RecordedTotal(rc \ {t})

\* The sum of yield_deposited over the circles 1..n.
RECURSIVE YieldTotal(_)
YieldTotal(n) ==
  IF n = 0 THEN 0 ELSE circles[n].yield_deposited + YieldTotal(n - 1)

\* C40: pot solvency.  The tokens the contract holds plus the funds recorded
\* as supplied to the lending pool cover the contributions recorded for the
\* current rounds, so that a vacancy refund or an insurance cover never leaves
\* a pot the contract cannot pay.
C40_PotSolvency ==
  contractBal + YieldTotal(circleCount) >= RecordedTotal(roundContrib)

\* A member who had contributed to the current round has just been replaced
\* and refunded: the contribution is still recorded for the round, and the
\* contract no longer holds it.
C40_Witness ==
  /\ last.op = "fill_vacancy" /\ last.ok /\ last.amt = 500
  /\ members[last.to].status = Ejected
  /\ <<last.cid, members[last.to].index, 500>> \in roundContrib
  /\ contractBal + YieldTotal(circleCount) < RecordedTotal(roundContrib)

====
